---------------------------- MODULE Spec2Model ----------------------------
(***************************************************************************)
(* A word-level model of SkPictureRecord, the display-list recorder.       *)
(*                                                                         *)
(* The command stream (fWriter) is a sequence of 32-bit words; a byte      *)
(* offset off names word off \div 4 + 1.  Headers, payload words, the      *)
(* restore-offset stack and the placeholder chain threaded through the     *)
(* clip commands are kept exactly as the code writes them, so that the     *)
(* peephole optimizations run by restore() read what the code reads.       *)
(*                                                                         *)
(* Assertions (SkASSERT) are compiled out, as in a release build.  An      *)
(* access of the writer outside [0, bytesWritten) or at an unaligned       *)
(* offset has no defined result: the recorder then enters the terminal     *)
(* status "fault".  A loop of the code that cannot end is the terminal     *)
(* status "hung".                                                          *)
(*                                                                         *)
(* Where a result is computed once and read several times the operators    *)
(* bind it as  CHOOSE r \in { body(x) : x \in {e} } : TRUE,  which is       *)
(* body(e) with e evaluated once.                                          *)
(***************************************************************************)
EXTENDS Integers, Sequences, FiniteSets, TLC

VARIABLES
    fWriter,                \* the command stream, a sequence of words
    fRestoreOffsetStack,    \* one int32 per open save / saveLayer
    fFirstSavedLayerIndex,  \* stack depth of the outermost open saveLayer
    fPaints,                \* the paint dictionary, index = position
    fBitmapHeap,            \* the bitmap dictionary, index = position
    fPictureRefs,           \* the nested pictures, in the order first drawn
    pictureRefCnt,          \* the reference count of each SkPicture there is
    fInitialSaveCount,      \* what save() returned in beginRecording
    fRecordFlags,           \* the set of recording flags given at construction
    fBoundingHierarchy,     \* TRUE when a bounding-box hierarchy is attached
    fStateTree,             \* TRUE when a state tree is attached
    hookCalls,              \* how often each hook of the two has been called
    saveCount,              \* the canvas's own save count (INHERITED)
    status,                 \* "ok", "fault" or "hung"
    phase,                  \* "constructed", "recording", "ended", "destroyed"
    lastOpt,                \* what the last restore() did
    callLimit,              \* how many calls the recorder is given, at most
    hist                    \* the calls made so far, with the writer length after each

vars == << fWriter, fRestoreOffsetStack, fFirstSavedLayerIndex, fPaints,
           fBitmapHeap, fPictureRefs, pictureRefCnt, fInitialSaveCount, fRecordFlags, fBoundingHierarchy,
           fStateTree, hookCalls, saveCount, status, phase, lastOpt, callLimit, hist >>

---------------------------------------------------------------------------
(* Bounds of the model.                                                    *)

\* the number of recorder calls of one recording, beginRecording and
\* endRecording included
MaxCalls == 6

MaxCallsDeep == 8

---------------------------------------------------------------------------
(* Program constants.                                                      *)

kNoInitialSave == -1
kUInt32Size == 4
kSaveSize == 2 * kUInt32Size
SizeofSkRect == 4 * kUInt32Size
kSaveLayerNoBoundsSize == 4 * kUInt32Size
kSaveLayerWithBoundsSize == 4 * kUInt32Size + SizeofSkRect

\* DrawType, in the order of the gPaintOffsets table
UNUSED == 0
CLIP_PATH == 1
CLIP_REGION == 2
CLIP_RECT == 3
CLIP_RRECT == 4
CONCAT == 5
DRAW_BITMAP == 6
DRAW_BITMAP_MATRIX == 7
DRAW_BITMAP_NINE == 8
DRAW_BITMAP_RECT_TO_RECT == 9
DRAW_CLEAR == 10
DRAW_DATA == 11
DRAW_OVAL == 12
DRAW_PAINT == 13
DRAW_PATH == 14
DRAW_PICTURE == 15
DRAW_POINTS == 16
DRAW_POS_TEXT == 17
DRAW_POS_TEXT_TOP_BOTTOM == 18
DRAW_POS_TEXT_H == 19
DRAW_POS_TEXT_H_TOP_BOTTOM == 20
DRAW_RECT == 21
DRAW_RRECT == 22
DRAW_SPRITE == 23
DRAW_TEXT == 24
DRAW_TEXT_ON_PATH == 25
DRAW_TEXT_TOP_BOTTOM == 26
DRAW_VERTICES == 27
RESTORE == 28
ROTATE == 29
SAVE == 30
SAVE_LAYER == 31
SCALE == 32
SET_MATRIX == 33
SKEW == 34
TRANSLATE == 35
NOOP == 36
BEGIN_COMMENT_GROUP == 37
COMMENT == 38
END_COMMENT_GROUP == 39
LAST_DRAWTYPE_ENUM == 39

\* SkPictureFlat.h and SkCanvas.h, which the recorder includes
MASK_24 == 16777215
TwoTo24 == MASK_24 + 1
kMatrix_SaveFlag == 1
kMatrixClip_SaveFlag == 3
kARGB_ClipLayer_SaveFlag == 31
kNoSavedLayerIndex == -1

---------------------------------------------------------------------------
(* SkWriter32.                                                             *)

bytesWritten(w) == kUInt32Size * Len(w)

\* the offsets read32At / write32At are defined at
InWriter(w, off) == off >= 0 /\ off % kUInt32Size = 0 /\ off < bytesWritten(w)

read32At(w, off) == w[(off \div kUInt32Size) + 1]

write32At(w, off, v) == [w EXCEPT ![(off \div kUInt32Size) + 1] = v]

rewindToOffset(w, off) == SubSeq(w, 1, off \div kUInt32Size)

PACK_8_24(op, size) == op * TwoTo24 + size

\* UNPACK_8_24 of a word taken as uint32_t (a negative int32 is its two's complement)
UnpackOp(word) == (word \div TwoTo24) % 256

UnpackSize(word) == word % TwoTo24

---------------------------------------------------------------------------
(* The opcode codec.                                                       *)

\* a test that lets the marker itself through
SizeOverflows_AboveMarker(size) == size > MASK_24

\* does a command of this size carry its size in a word of its own
SizeOverflows(size) == size >= MASK_24

\* the words addDraw appends for (drawType, size)
addDraw(drawType, size) ==
    IF SizeOverflows(size)
    THEN << PACK_8_24(drawType, MASK_24), size >>
    ELSE << PACK_8_24(drawType, size) >>

\* [st, op, size]: the opcode and the size of the command at offset
peek_op_and_size(w, offset) ==
    IF ~InWriter(w, offset) THEN [st |-> "fault", op |-> UNUSED, size |-> 0]
    ELSE LET peek == read32At(w, offset)
             op   == UnpackOp(peek)
             size == UnpackSize(peek)
         IN IF MASK_24 = size
            THEN IF InWriter(w, offset + kUInt32Size)
                 THEN [st |-> "ok", op |-> op,
                       size |-> read32At(w, offset + kUInt32Size)]
                 ELSE [st |-> "fault", op |-> op, size |-> 0]
            ELSE [st |-> "ok", op |-> op, size |-> size]

gPaintOffsets ==
    [op \in 0..LAST_DRAWTYPE_ENUM |->
        IF \/ op \in DRAW_BITMAP..DRAW_BITMAP_RECT_TO_RECT
           \/ op \in DRAW_OVAL..DRAW_PATH
           \/ op \in DRAW_POINTS..DRAW_VERTICES
        THEN 1 ELSE 0]

\* the offset of the paint index inside the command (op, opSize)
getPaintOffset(op, opSize) ==
    LET overflow == IF SizeOverflows(opSize) THEN kUInt32Size ELSE 0
    IN IF SAVE_LAYER = op
       THEN IF kSaveLayerNoBoundsSize = opSize
            THEN 2 * kUInt32Size + overflow
            ELSE 2 * kUInt32Size + SizeofSkRect + overflow
       ELSE gPaintOffsets[op] * kUInt32Size + overflow

\* a conversion that takes the command out of the stream
convert_command_to_noop_Cut(w, offset) ==
    SubSeq(w, 1, offset \div kUInt32Size)
        \o SubSeq(w, (offset + UnpackSize(read32At(w, offset))) \div kUInt32Size + 1, Len(w))

\* a conversion that takes the size it keeps from the word after the marker
convert_command_to_noop_InlineSize(w, offset) ==
    write32At(w, offset,
              PACK_8_24(NOOP, UnpackSize(peek_op_and_size(w, offset).size)))

\* a conversion that forgets the size of the command it blanks
convert_command_to_noop_DropSize(w, offset) ==
    write32At(w, offset, PACK_8_24(NOOP, 0))

\* convert_command_to_noop: the opcode byte becomes NOOP, the size stays
convert_command_to_noop(w, offset) ==
    write32At(w, offset, PACK_8_24(NOOP, UnpackSize(read32At(w, offset))))

---------------------------------------------------------------------------
(* Paints and the dictionaries.                                            *)

\* SkColor as alpha and the 24 bits of red, green, blue
Color(a, rgb) == [a |-> a, rgb |-> rgb]

\* Is the supplied paint simply a color?  effects stands for the eight
\* effect pointers of the paint, or-ed together
\* the test turned around
is_simple_Inverted(p) == p.effects # 0

is_simple(p) == p.effects = 0

\* the index of value in dict, 0 when absent
IndexIn(dict, value) ==
    IF \E i \in 1..Len(dict) : dict[i] = value
    THEN CHOOSE i \in 1..Len(dict) : dict[i] = value
    ELSE 0

\* findAndReturnFlat: [dict, index], the 1-based index of the value, which
\* is appended when it is new
findAndReturnFlat(dict, value) ==
    IF IndexIn(dict, value) # 0
    THEN [dict |-> dict, index |-> IndexIn(dict, value)]
    ELSE [dict |-> Append(dict, value), index |-> Len(dict) + 1]

\* a paint argument: a colour and its effects; NullPaint is the NULL pointer
Paint(color, effects) == [color |-> color, effects |-> effects, null |-> FALSE]

NullPaint == [color |-> Color(0, 0), effects |-> 0, null |-> TRUE]

\* an addPaintPtr that never looks the paint up
addPaintPtr_NoLookup(dict, paint) ==
    IF paint.null THEN [dict |-> dict, index |-> 0]
    ELSE [dict |-> Append(dict, paint), index |-> Len(dict) + 1]

\* addPaintPtr: a null paint is recorded as index 0
addPaintPtr(dict, paint) ==
    IF paint.null THEN [dict |-> dict, index |-> 0]
    ELSE findAndReturnFlat(dict, paint)

---------------------------------------------------------------------------
(* The restore-offset stack and the placeholder chain.                     *)

Top(stack) == stack[Len(stack)]

Pop(stack) == SubSeq(stack, 1, Len(stack) - 1)

SetTop(stack, v) == [stack EXCEPT ![Len(stack)] = v]

RegionOps == {"Difference", "Intersect", "Union", "XOR", "ReverseDifference", "Replace"}

\* a test that takes no op for one that expands
regionOpExpands_Never(op) == FALSE

\* regionOpExpands: can the op make the clip larger
regionOpExpands(op) == op \in {"Union", "XOR", "ReverseDifference", "Replace"}

\* the ordinal of a region op and the packing of (op, doAA) into one word
RegionOpOrdinal ==
    [op \in RegionOps |->
        CASE op = "Difference" -> 0
          [] op = "Intersect" -> 1
          [] op = "Union" -> 2
          [] op = "XOR" -> 3
          [] op = "ReverseDifference" -> 4
          [] op = "Replace" -> 5]

ClipParams_pack(op, doAA) == RegionOpOrdinal[op] + (IF doAA THEN 16 ELSE 0)

\* "back up to the save block": while (offset > 0) offset = read32At(offset).
\* [st, offset]; a chain that runs in a circle never ends
RECURSIVE BackUpToSave(_, _, _)
BackUpToSave(w, offset, fuel) ==
    IF offset > 0
    THEN IF ~InWriter(w, offset) THEN [st |-> "fault", offset |-> offset]
         ELSE IF fuel = 0 THEN [st |-> "hung", offset |-> offset]
         ELSE CHOOSE r \in { BackUpToSave(w, next, fuel - 1) :
                                next \in {read32At(w, offset)} } : TRUE
    ELSE [st |-> "ok", offset |-> offset]

\* a walk that stops after the first slot of the chain
FillChain_FirstOnly(w, offset, restoreOffset) ==
    IF offset > 0
    THEN IF ~InWriter(w, offset) THEN [st |-> "fault", w |-> w]
         ELSE [st |-> "ok", w |-> write32At(w, offset, restoreOffset)]
    ELSE [st |-> "ok", w |-> w]

\* fillRestoreOffsetPlaceholdersForCurrentStackLevel: [st, w], every slot
\* of the chain that starts at offset overwritten with restoreOffset
RECURSIVE FillChain(_, _, _)
FillChain(w, offset, restoreOffset) ==
    IF offset > 0
    THEN IF ~InWriter(w, offset) THEN [st |-> "fault", w |-> w]
         ELSE CHOOSE r \in { FillChain(a.w, a.peek, restoreOffset) :
                                a \in {[peek |-> read32At(w, offset),
                                        w |-> write32At(w, offset, restoreOffset)]} } : TRUE
    ELSE [st |-> "ok", w |-> w]

fillRestoreOffsetPlaceholdersForCurrentStackLevel(w, stack, restoreOffset) ==
    FillChain(w, Top(stack), restoreOffset)

\* a helper that writes a placeholder also when no scope is open
recordRestoreOffsetPlaceholder_AlwaysWrites(w, stack, op) ==
    IF Len(stack) = 0
    THEN [st |-> "ok", w |-> Append(w, 0), stack |-> stack, offset |-> bytesWritten(w)]
    ELSE [st |-> "ok", w |-> Append(w, Top(stack)),
          stack |-> SetTop(stack, bytesWritten(w)), offset |-> bytesWritten(w)]

\* recordRestoreOffsetPlaceholder: [st, w, stack, offset]
recordRestoreOffsetPlaceholder(w, stack, op) ==
    IF Len(stack) = 0
    THEN [st |-> "ok", w |-> w, stack |-> stack, offset |-> -1]
    ELSE LET prevOffset == IF regionOpExpands(op) THEN 0 ELSE Top(stack)
         IN CHOOSE r \in
              { [st |-> filled.st,
                 w |-> Append(filled.w, prevOffset),
                 stack |-> SetTop(stack, bytesWritten(filled.w)),
                 offset |-> bytesWritten(filled.w)] :
                filled \in {IF regionOpExpands(op)
                            THEN fillRestoreOffsetPlaceholdersForCurrentStackLevel(w, stack, 0)
                            ELSE [st |-> "ok", w |-> w]} } : TRUE

---------------------------------------------------------------------------
(* The peephole optimizations tried by restore().                          *)

kDRAW_BITMAP_FLAVOR == LAST_DRAWTYPE_ENUM + 1

IsDrawBitmapFlavor(op) ==
    op \in {DRAW_BITMAP, DRAW_BITMAP_MATRIX, DRAW_BITMAP_NINE, DRAW_BITMAP_RECT_TO_RECT}

CommandInfo(op, offset, size) == [fActualOp |-> op, fOffset |-> offset, fSize |-> size]

\* the inner loop of match: while (NOOP == op && curOffset < bytesWritten)
\* [st, offset, op, size]
RECURSIVE SkipNoops(_, _, _, _)
SkipNoops(w, curOffset, op, curSize) ==
    IF NOOP = op /\ curOffset < bytesWritten(w)
    THEN IF curSize = 0 THEN [st |-> "hung", offset |-> curOffset, op |-> op, size |-> 0]
         ELSE IF curOffset + curSize >= bytesWritten(w)
         \* what is peeked past the tail is never used: match returns false
         THEN [st |-> "ok", offset |-> curOffset + curSize, op |-> UNUSED, size |-> 0]
         ELSE CHOOSE r \in
                { IF pk.st # "ok"
                  THEN [st |-> pk.st, offset |-> curOffset, op |-> op, size |-> 0]
                  ELSE SkipNoops(w, pk.at, pk.op, pk.size) :
                  pk \in {[at |-> curOffset + curSize] @@
                          peek_op_and_size(w, curOffset + curSize)} } : TRUE
    ELSE [st |-> "ok", offset |-> curOffset, op |-> op, size |-> curSize]

\* the for loop of match and what follows it: [st, matched, result]
RECURSIVE MatchFrom(_, _, _, _, _, _)
MatchFrom(w, pattern, numMatched, curOffset, curSize, result) ==
    IF numMatched < Len(pattern) /\ curOffset < bytesWritten(w)
    THEN CHOOSE r \in
           { IF sk.st # "ok" THEN [st |-> sk.st, matched |-> FALSE, result |-> result]
             ELSE IF sk.offset >= bytesWritten(w)
                  THEN [st |-> "ok", matched |-> FALSE, result |-> result]
             ELSE IF (kDRAW_BITMAP_FLAVOR = pattern[numMatched + 1]
                         /\ ~IsDrawBitmapFlavor(sk.op))
                     \/ (kDRAW_BITMAP_FLAVOR # pattern[numMatched + 1]
                         /\ sk.op # pattern[numMatched + 1])
                  THEN [st |-> "ok", matched |-> FALSE, result |-> result]
             ELSE MatchFrom(w, pattern, sk.n, sk.next, sk.size,
                            result \o << CommandInfo(sk.op, sk.offset, sk.size) >>) :
             sk \in { [n |-> numMatched + 1, next |-> k.offset + k.size] @@ k :
                      k \in { IF pk.st # "ok"
                              THEN [st |-> pk.st, offset |-> curOffset, op |-> pk.op, size |-> 0]
                              ELSE SkipNoops(w, curOffset, pk.op, pk.size) :
                              pk \in {peek_op_and_size(w, curOffset)} } } } : TRUE
    ELSE IF numMatched # Len(pattern)
         THEN [st |-> "ok", matched |-> FALSE, result |-> result]
         ELSE IF curOffset + curSize < bytesWritten(w)
              THEN [st |-> "ok", matched |-> FALSE, result |-> result]
              ELSE [st |-> "ok", matched |-> TRUE, result |-> result]

match(w, offset, pattern) == MatchFrom(w, pattern, 0, offset, 0, << >>)

\* a test of the colours that leaves the draw's alpha out
ColorsFoldable_RgbOnly(dbmColor, slColor) == dbmColor.rgb = slColor.rgb

\* a test of the draw's alpha alone
ColorsFoldable_AlphaOnly(dbmColor, slColor) == dbmColor.a = 255

\* the draw's color against the layer's forced opaque
ColorsFoldable(dbmColor, slColor) == dbmColor = Color(255, slColor.rgb)

\* a merge that writes the index of the merged paint and does not keep the
\* dictionary that has it
merge_savelayer_paint_into_drawbitmp_NotInterned(w, paintDict, saveLayerInfo, dbmInfo) ==
    LET dbmPaintOffset == getPaintOffset(dbmInfo.fActualOp, dbmInfo.fSize)
        slPaintOffset  == getPaintOffset(SAVE_LAYER, saveLayerInfo.fSize)
        dbmAt == dbmInfo.fOffset + dbmPaintOffset
        slAt  == saveLayerInfo.fOffset + slPaintOffset
        dbmPaintId       == read32At(w, dbmAt)
        saveLayerPaintId == read32At(w, slAt)
        saveLayerPaint == paintDict[saveLayerPaintId]
        dbmPaint       == paintDict[dbmPaintId]
        newColor   == Color(saveLayerPaint.color.a, dbmPaint.color.rgb)
        data == findAndReturnFlat(paintDict, [dbmPaint EXCEPT !.color = newColor])
        no == [st |-> "ok", fired |-> FALSE, w |-> w, paints |-> paintDict]
    IN IF ~InWriter(w, dbmAt) \/ ~InWriter(w, slAt)
       THEN [no EXCEPT !.st = "fault"]
       ELSE IF 0 = saveLayerPaintId
       THEN [no EXCEPT !.fired = TRUE,
                       !.w = convert_command_to_noop(w, saveLayerInfo.fOffset)]
       ELSE IF 0 = dbmPaintId
       THEN [no EXCEPT !.fired = TRUE,
                       !.w = write32At(convert_command_to_noop(w, saveLayerInfo.fOffset),
                                       dbmAt, saveLayerPaintId)]
       ELSE IF saveLayerPaintId \notin 1..Len(paintDict) THEN [no EXCEPT !.st = "fault"]
       ELSE IF ~is_simple(saveLayerPaint) THEN no
       ELSE IF dbmPaintId \notin 1..Len(paintDict) THEN [no EXCEPT !.st = "fault"]
       ELSE IF ~ColorsFoldable(dbmPaint.color, saveLayerPaint.color) THEN no
       ELSE [no EXCEPT !.fired = TRUE,
                       !.w = write32At(convert_command_to_noop(w, saveLayerInfo.fOffset),
                                       dbmAt, data.index)]

\* a merge that gives up whatever the paints are
merge_savelayer_paint_into_drawbitmp_Never(w, paintDict, saveLayerInfo, dbmInfo) ==
    [st |-> "ok", fired |-> FALSE, w |-> w, paints |-> paintDict]

\* merge_savelayer_paint_into_drawbitmp: [st, fired, w, paints]
merge_savelayer_paint_into_drawbitmp(w, paintDict, saveLayerInfo, dbmInfo) ==
    LET dbmPaintOffset == getPaintOffset(dbmInfo.fActualOp, dbmInfo.fSize)
        slPaintOffset  == getPaintOffset(SAVE_LAYER, saveLayerInfo.fSize)
        dbmAt == dbmInfo.fOffset + dbmPaintOffset
        slAt  == saveLayerInfo.fOffset + slPaintOffset
        dbmPaintId       == read32At(w, dbmAt)
        saveLayerPaintId == read32At(w, slAt)
        saveLayerPaint == paintDict[saveLayerPaintId]
        dbmPaint       == paintDict[dbmPaintId]
        newColor   == Color(saveLayerPaint.color.a, dbmPaint.color.rgb)
        data == findAndReturnFlat(paintDict, [dbmPaint EXCEPT !.color = newColor])
        no == [st |-> "ok", fired |-> FALSE, w |-> w, paints |-> paintDict]
    IN IF ~InWriter(w, dbmAt) \/ ~InWriter(w, slAt)
       THEN [no EXCEPT !.st = "fault"]
       ELSE IF 0 = saveLayerPaintId
       THEN [no EXCEPT !.fired = TRUE,
                       !.w = convert_command_to_noop(w, saveLayerInfo.fOffset)]
       ELSE IF 0 = dbmPaintId
       THEN [no EXCEPT !.fired = TRUE,
                       !.w = write32At(convert_command_to_noop(w, saveLayerInfo.fOffset),
                                       dbmAt, saveLayerPaintId)]
       ELSE IF saveLayerPaintId \notin 1..Len(paintDict) THEN [no EXCEPT !.st = "fault"]
       ELSE IF ~is_simple(saveLayerPaint) THEN no
       ELSE IF dbmPaintId \notin 1..Len(paintDict) THEN [no EXCEPT !.st = "fault"]
       ELSE IF ~ColorsFoldable(dbmPaint.color, saveLayerPaint.color) THEN no
       ELSE [no EXCEPT !.fired = TRUE,
                       !.w = write32At(convert_command_to_noop(w, saveLayerInfo.fOffset),
                                       dbmAt, data.index),
                       !.paints = data.dict]

\* the shared part without the test of the layer's size
RemoveSaveLayer_NoBoundsCheck(w, offset, paintDict, pattern, dbmAt) ==
    LET no == [st |-> "ok", fired |-> FALSE, w |-> w, paints |-> paintDict]
    IN CHOOSE r \in
         { IF m.st # "ok" THEN [no EXCEPT !.st = m.st]
           ELSE IF ~m.matched THEN no
           ELSE merge_savelayer_paint_into_drawbitmp(w, paintDict,
                                                     m.result[1], m.result[dbmAt]) :
           m \in { IF back.st # "ok"
                   THEN [st |-> back.st, matched |-> FALSE, result |-> << >>]
                   ELSE match(w, -back.offset, pattern) :
                   back \in {BackUpToSave(w, offset, Len(w))} } } : TRUE

\* the part the two remove_save_layer procs share: [st, fired, w, paints]
RemoveSaveLayer(w, offset, paintDict, pattern, dbmAt) ==
    LET no == [st |-> "ok", fired |-> FALSE, w |-> w, paints |-> paintDict]
    IN CHOOSE r \in
         { IF m.st # "ok" THEN [no EXCEPT !.st = m.st]
           ELSE IF ~m.matched THEN no
           ELSE IF kSaveLayerWithBoundsSize = m.result[1].fSize THEN no
           ELSE merge_savelayer_paint_into_drawbitmp(w, paintDict,
                                                     m.result[1], m.result[dbmAt]) :
           m \in { IF back.st # "ok"
                   THEN [st |-> back.st, matched |-> FALSE, result |-> << >>]
                   ELSE match(w, -back.offset, pattern) :
                   back \in {BackUpToSave(w, offset, Len(w))} } } : TRUE

\* a remove_save_layer1 that never matches
remove_save_layer1_Never(w, offset, paintDict) ==
    [st |-> "ok", fired |-> FALSE, w |-> w, paints |-> paintDict]

remove_save_layer1(w, offset, paintDict) ==
    RemoveSaveLayer(w, offset, paintDict, << SAVE_LAYER, kDRAW_BITMAP_FLAVOR >>, 2)

\* a remove_save_layer2 that never matches
remove_save_layer2_Never(w, offset, paintDict) ==
    [st |-> "ok", fired |-> FALSE, w |-> w, paints |-> paintDict]

remove_save_layer2(w, offset, paintDict) ==
    RemoveSaveLayer(w, offset, paintDict,
                    << SAVE_LAYER, SAVE, CLIP_RECT, kDRAW_BITMAP_FLAVOR, RESTORE >>, 4)

\* is op one that stops collapse_save_clip_restore
\* the range test without its upper end
IsDrawVerb_NoUpperEnd(op) == op > CONCAT \/ SAVE_LAYER = op

IsDrawVerb(op) == (op > CONCAT /\ op < ROTATE) \/ SAVE_LAYER = op

\* the forward walk of collapse_save_clip_restore: "fault", "hung",
\* "abort" (a drawing verb was met) or "end" (the restore was reached)
RECURSIVE WalkForward(_, _, _)
WalkForward(w, offset, restoreOffset) ==
    IF offset < restoreOffset
    THEN CHOOSE r \in
           { IF pk.st # "ok" THEN pk.st
             ELSE IF IsDrawVerb(pk.op) THEN "abort"
             ELSE IF pk.size = 0 THEN "hung"
             ELSE WalkForward(w, pk.next, restoreOffset) :
             pk \in { [next |-> offset + k.size] @@ k :
                      k \in {peek_op_and_size(w, offset)} } } : TRUE
    ELSE "end"

\* collapse_save_clip_restore: [st, fired, w, paints]
collapse_save_clip_restore(w, offset, paintDict) ==
    LET restoreOffset == bytesWritten(w)
        no == [st |-> "ok", fired |-> FALSE, w |-> w, paints |-> paintDict]
    IN CHOOSE r \in
         { LET saveOffset == -back.offset
               saveFlags == read32At(w, saveOffset + 4)
           IN IF back.st # "ok" THEN [no EXCEPT !.st = back.st]
              ELSE CHOOSE q \in
                     { IF pk.st # "ok" THEN [no EXCEPT !.st = pk.st]
                       ELSE IF SAVE_LAYER = pk.op THEN no
                       ELSE IF ~InWriter(w, saveOffset + 4) THEN [no EXCEPT !.st = "fault"]
                       ELSE IF kMatrixClip_SaveFlag # saveFlags THEN no
                       ELSE CHOOSE v \in
                              { IF walk \in {"fault", "hung"} THEN [no EXCEPT !.st = walk]
                                ELSE IF walk = "abort" THEN no
                                ELSE [no EXCEPT !.fired = TRUE,
                                                !.w = rewindToOffset(w, saveOffset)] :
                                walk \in {WalkForward(w, saveOffset + pk.size,
                                                      restoreOffset)} } : TRUE :
                       pk \in {peek_op_and_size(w, saveOffset)} } : TRUE :
           back \in {BackUpToSave(w, offset, Len(w))} } : TRUE

\* gPictureRecordOpts: the optimizations tried upon a restore, in order
kSkipIfBBoxHierarchy_Flag == 1

\* a table in which no optimization minds the hierarchy
gPictureRecordOpts_NoSkipFlag ==
    << [fProc |-> "collapse_save_clip_restore", fType |-> "kRewind_OptType",
        fFlags |-> 0],
       [fProc |-> "remove_save_layer1", fType |-> "kCollapseSaveLayer_OptType",
        fFlags |-> 0],
       [fProc |-> "remove_save_layer2", fType |-> "kCollapseSaveLayer_OptType",
        fFlags |-> 0] >>

\* gPictureRecordOpts: the optimizations restore() tries, in this order
gPictureRecordOpts ==
    << [fProc |-> "collapse_save_clip_restore", fType |-> "kRewind_OptType",
        fFlags |-> kSkipIfBBoxHierarchy_Flag],
       [fProc |-> "remove_save_layer1", fType |-> "kCollapseSaveLayer_OptType",
        fFlags |-> 0],
       [fProc |-> "remove_save_layer2", fType |-> "kCollapseSaveLayer_OptType",
        fFlags |-> 0] >>

\* no hook has been called
NoHookCalls == [saveCollapsed |-> 0, rewindInserts |-> 0]

\* a notification that tells the state tree of every optimization
apply_optimization_to_bbh_TellsTreeOfAll(opt, stateTree, boundingHierarchy, calls) ==
    IF stateTree THEN [calls EXCEPT !.saveCollapsed = @ + 1] ELSE calls

\* apply_optimization_to_bbh: an optimization of type opt has fired; the
\* state tree, when there is one, is told of a collapsed saveLayer, and
\* the hierarchy, when there is one, is told to rewind its inserts
apply_optimization_to_bbh(opt, stateTree, boundingHierarchy, calls) ==
    CASE opt = "kCollapseSaveLayer_OptType" ->
           IF stateTree THEN [calls EXCEPT !.saveCollapsed = @ + 1] ELSE calls
      [] opt = "kRewind_OptType" ->
           IF boundingHierarchy THEN [calls EXCEPT !.rewindInserts = @ + 1] ELSE calls
      [] OTHER -> calls

CallOptProc(fProc, w, offset, paintDict) ==
    CASE fProc = "collapse_save_clip_restore" -> collapse_save_clip_restore(w, offset, paintDict)
      [] fProc = "remove_save_layer1" -> remove_save_layer1(w, offset, paintDict)
      [] fProc = "remove_save_layer2" -> remove_save_layer2(w, offset, paintDict)

\* the loop of restore() over gPictureRecordOpts, from index opt on:
\* [st, opt, w, paints], opt the index that fired, Len + 1 when none did
RECURSIVE TryOpts(_, _, _, _, _)
TryOpts(opt, w, offset, paintDict, hasBBH) ==
    IF opt > Len(gPictureRecordOpts)
    THEN [st |-> "ok", opt |-> opt, w |-> w, paints |-> paintDict]
    ELSE IF gPictureRecordOpts[opt].fFlags = kSkipIfBBoxHierarchy_Flag /\ hasBBH
    THEN TryOpts(opt + 1, w, offset, paintDict, hasBBH)
    ELSE CHOOSE t \in
           { IF r.st # "ok" THEN [st |-> r.st, opt |-> opt, w |-> w, paints |-> paintDict]
             ELSE IF r.fired THEN [st |-> "ok", opt |-> opt, w |-> r.w, paints |-> r.paints]
             ELSE TryOpts(opt + 1, w, offset, paintDict, hasBBH) :
             r \in {CallOptProc(gPictureRecordOpts[opt].fProc, w, offset, paintDict)} } : TRUE

---------------------------------------------------------------------------
(* The recorder.  Its methods are operators on the record s of its fields: *)
(* w, stack, first, paints, bitmaps, flags, bbh, count, st, opt.           *)

\* the scalars, rectangle, bitmap and colour the calls are made with
SkScalarBits == [zero |-> 0, one |-> 1065353216, two |-> 1073741824]

RectWords == << SkScalarBits.zero, SkScalarBits.zero, SkScalarBits.one, SkScalarBits.one >>

TheBitmap == "B"

\* SkCanvas::save and SkCanvas::restore, as far as the save count goes
InheritedSave(count) == count + 1

InheritedRestore(count) == IF count > 1 THEN count - 1 ELSE count

recordSave(w, flags) == w \o addDraw(SAVE, kSaveSize) \o << flags >>

\* a save that notes where its header ends, not where it starts
save_PushesAfterHeader(s, flags) ==
    [s EXCEPT !.stack = Append(s.stack, -bytesWritten(recordSave(s.w, flags))),
              !.w = recordSave(s.w, flags),
              !.count = InheritedSave(s.count)]

save(s, flags) ==
    [s EXCEPT !.stack = Append(s.stack, -bytesWritten(s.w)),
              !.w = recordSave(s.w, flags),
              !.count = InheritedSave(s.count)]

\* addRectPtr: the bool, then the rectangle when there is one
addRectPtr(hasRect) == IF hasRect THEN << 1 >> \o RectWords ELSE << 0 >>

recordSaveLayer(w, bounds, paintIndex, flags) ==
    LET size == 2 * kUInt32Size + (IF bounds THEN SizeofSkRect ELSE 0) + 2 * kUInt32Size
    IN w \o addDraw(SAVE_LAYER, size) \o addRectPtr(bounds) \o << paintIndex, flags >>

\* isDrawingToLayer: a saveLayer scope is open
isDrawingToLayer(s) == s.first # kNoSavedLayerIndex

\* a saveLayer that notes its own depth whether or not a layer is open
saveLayer_TracksInnermost(s, bounds, paint, flags) ==
    LET p == addPaintPtr(s.paints, paint)
        stack == Append(s.stack, -bytesWritten(s.w))
    IN [s EXCEPT !.stack = stack,
                 !.w = recordSaveLayer(s.w, bounds, p.index, flags),
                 !.paints = p.dict,
                 !.first = Len(stack),
                 !.count = InheritedSave(s.count)]

saveLayer(s, bounds, paint, flags) ==
    LET p == addPaintPtr(s.paints, paint)
        stack == Append(s.stack, -bytesWritten(s.w))
    IN [s EXCEPT !.stack = stack,
                 !.w = recordSaveLayer(s.w, bounds, p.index, flags),
                 !.paints = p.dict,
                 !.first = IF kNoSavedLayerIndex = s.first THEN Len(stack) ELSE s.first,
                 !.count = InheritedSave(s.count)]

\* a test of the flag that never finds it
OptimizationsDisabled_Ignored(flags) == FALSE

\* fRecordFlags & SkPicture::kDisableRecordOptimizations_RecordingFlag
OptimizationsDisabled(flags) ==
    "kDisableRecordOptimizations_RecordingFlag" \in flags

\* recordRestore: [st, w]
recordRestore(w, stack) ==
    CHOOSE r \in
      { [st |-> filled.st, w |-> filled.w \o addDraw(RESTORE, 1 * kUInt32Size)] :
        filled \in {fillRestoreOffsetPlaceholdersForCurrentStackLevel(
                        w, stack, bytesWritten(w))} } : TRUE

OptName(opt) ==
    IF opt \in 1..Len(gPictureRecordOpts) THEN gPictureRecordOpts[opt].fProc
    ELSE "recordRestore"

\* a restore that records a RESTORE though no scope is open
restore_NoUnderflowCheck(s) ==
    IF Len(s.stack) = 0
    THEN [s EXCEPT !.w = s.w \o addDraw(RESTORE, 1 * kUInt32Size),
                   !.opt = "recordRestore"]
    ELSE LET first == IF Len(s.stack) = s.first THEN kNoSavedLayerIndex ELSE s.first
             disabled == OptimizationsDisabled(s.flags)
         IN CHOOSE r \in
              { LET none == disabled \/ tried.opt = Len(gPictureRecordOpts) + 1
                IN IF tried.st # "ok" THEN [s EXCEPT !.st = tried.st, !.opt = "none"]
                   ELSE CHOOSE q \in
                          { IF rec.st # "ok" THEN [s EXCEPT !.st = rec.st, !.opt = "none"]
                            ELSE [s EXCEPT !.first = first,
                                           !.w = rec.w,
                                           !.paints = tried.paints,
                                           !.stack = Pop(s.stack),
                                           !.count = InheritedRestore(s.count),
                                           !.opt = IF none THEN "recordRestore"
                                                   ELSE OptName(tried.opt)] :
                            rec \in {IF none THEN recordRestore(tried.w, s.stack)
                                     ELSE [st |-> "ok", w |-> tried.w]} } : TRUE :
                tried \in {IF disabled
                           THEN [st |-> "ok", opt |-> 0, w |-> s.w, paints |-> s.paints]
                           ELSE TryOpts(1, s.w, Top(s.stack), s.paints, s.bbh)} } : TRUE

\* a restore that records a RESTORE also after an optimization fired
restore_AlwaysRecords(s) ==
    IF Len(s.stack) = 0 THEN [s EXCEPT !.opt = "underflow"]
    ELSE LET first == IF Len(s.stack) = s.first THEN kNoSavedLayerIndex ELSE s.first
             disabled == OptimizationsDisabled(s.flags)
         IN CHOOSE r \in
              { LET none == disabled \/ tried.opt = Len(gPictureRecordOpts) + 1
                IN IF tried.st # "ok" THEN [s EXCEPT !.st = tried.st, !.opt = "none"]
                   ELSE CHOOSE q \in
                          { IF rec.st # "ok" THEN [s EXCEPT !.st = rec.st, !.opt = "none"]
                            ELSE [s EXCEPT !.first = first,
                                           !.w = rec.w,
                                           !.paints = tried.paints,
                                           !.stack = Pop(s.stack),
                                           !.count = InheritedRestore(s.count),
                                           !.opt = IF none THEN "recordRestore"
                                                   ELSE OptName(tried.opt)] :
                            rec \in {recordRestore(tried.w, s.stack)} } : TRUE :
                tried \in {IF disabled
                           THEN [st |-> "ok", opt |-> 0, w |-> s.w, paints |-> s.paints]
                           ELSE TryOpts(1, s.w, Top(s.stack), s.paints, s.bbh)} } : TRUE

\* restore: an underflow is ignored; else the optimizations are tried, a
\* RESTORE is recorded when none fired, and the scope is popped
restore(s) ==
    IF Len(s.stack) = 0 THEN [s EXCEPT !.opt = "underflow"]
    ELSE LET first == IF Len(s.stack) = s.first THEN kNoSavedLayerIndex ELSE s.first
             disabled == OptimizationsDisabled(s.flags)
         IN CHOOSE r \in
              { LET none == disabled \/ tried.opt = Len(gPictureRecordOpts) + 1
                IN IF tried.st # "ok" THEN [s EXCEPT !.st = tried.st, !.opt = "none"]
                   ELSE CHOOSE q \in
                          { IF rec.st # "ok" THEN [s EXCEPT !.st = rec.st, !.opt = "none"]
                            ELSE [s EXCEPT !.first = first,
                                           !.w = rec.w,
                                           !.paints = tried.paints,
                                           !.stack = Pop(s.stack),
                                           !.count = InheritedRestore(s.count),
                                           !.calls = IF none THEN s.calls
                                                     ELSE apply_optimization_to_bbh(
                                                            gPictureRecordOpts[tried.opt].fType,
                                                            s.tree, s.bbh, s.calls),
                                           !.opt = IF none THEN "recordRestore"
                                                   ELSE OptName(tried.opt)] :
                            rec \in {IF none THEN recordRestore(tried.w, s.stack)
                                     ELSE [st |-> "ok", w |-> tried.w]} } : TRUE :
                tried \in {IF disabled
                           THEN [st |-> "ok", opt |-> 0, w |-> s.w, paints |-> s.paints]
                           ELSE TryOpts(1, s.w, Top(s.stack), s.paints, s.bbh)} } : TRUE

translate(s, dx, dy) ==
    [s EXCEPT !.w = s.w \o addDraw(TRANSLATE, 1 * kUInt32Size + 2 * kUInt32Size) \o << dx, dy >>]

rotate(s, degrees) ==
    [s EXCEPT !.w = s.w \o addDraw(ROTATE, 1 * kUInt32Size + kUInt32Size) \o << degrees >>]

\* recordClipRect: [s, offset], the recorder after it and what it returns
recordClipRect(s, op, doAA) ==
    LET size == 1 * kUInt32Size + SizeofSkRect + 1 * kUInt32Size
                + (IF Len(s.stack) # 0 THEN kUInt32Size ELSE 0)
        w == s.w \o addDraw(CLIP_RECT, size) \o RectWords \o << ClipParams_pack(op, doAA) >>
    IN CHOOSE q \in
         { IF r.st # "ok" THEN [s |-> [s EXCEPT !.st = r.st], offset |-> r.offset]
           ELSE [s |-> [s EXCEPT !.w = r.w, !.stack = r.stack], offset |-> r.offset] :
           r \in {recordRestoreOffsetPlaceholder(w, s.stack, op)} } : TRUE

\* clipRect records the clip
clipRect(s, op, doAA) == recordClipRect(s, op, doAA).s

\* recordClipPath: [s, offset]
recordClipPath(s, pathID, op, doAA) ==
    LET size == 3 * kUInt32Size + (IF Len(s.stack) # 0 THEN kUInt32Size ELSE 0)
        w == s.w \o addDraw(CLIP_PATH, size) \o << pathID, ClipParams_pack(op, doAA) >>
    IN CHOOSE q \in
         { IF r.st # "ok" THEN [s |-> [s EXCEPT !.st = r.st], offset |-> r.offset]
           ELSE [s |-> [s EXCEPT !.w = r.w, !.stack = r.stack], offset |-> r.offset] :
           r \in {recordRestoreOffsetPlaceholder(w, s.stack, op)} } : TRUE

\* clipPath of a path that is no rectangle records the clip
clipPath(s, pathID, op, doAA) == recordClipPath(s, pathID, op, doAA).s

clear(s, color) ==
    [s EXCEPT !.w = s.w \o addDraw(DRAW_CLEAR, 2 * kUInt32Size) \o << color >>]

drawRect(s, paint) ==
    LET p == findAndReturnFlat(s.paints, paint)
    IN [s EXCEPT !.w = s.w \o addDraw(DRAW_RECT, 2 * kUInt32Size + SizeofSkRect)
                           \o << p.index >> \o RectWords,
                 !.paints = p.dict]

drawBitmap(s, bitmap, left, top, paint) ==
    LET p == addPaintPtr(s.paints, paint)
        b == findAndReturnFlat(s.bitmaps, bitmap)
    IN [s EXCEPT !.w = s.w \o addDraw(DRAW_BITMAP, 3 * kUInt32Size + 2 * kUInt32Size)
                           \o << p.index, b.index, left, top >>,
                 !.paints = p.dict,
                 !.bitmaps = b.dict]

---------------------------------------------------------------------------
(* The recorder's other commands, with the sizes they declare.  The bytes  *)
(* of a text, of a data block or of an array of points or colours are      *)
(* written as zero words: only their number is followed.                    *)

SizeofSkScalar == kUInt32Size

SizeofSkPoint == 2 * SizeofSkScalar

SizeofSkColor == kUInt32Size

SizeofSkIRect == 4 * kUInt32Size

\* SkAlign4: x rounded up to a multiple of 4
SkAlign4(x) == ((x + 3) \div 4) * 4

\* SkWriter32::writePad and writeMul4: the words n bytes take
writePad(n) == [i \in 1..(SkAlign4(n) \div kUInt32Size) |-> 0]

\* SkWriter32::writeString: the length, then the characters and their
\* terminator, padded
writeString(length) == << length >> \o writePad(length + 1)

\* addText: the length, then the text, padded
addText(byteLength) == << byteLength >> \o writePad(byteLength)

\* addFontMetricsTopBottom: the paint's top and bottom (taken as 0) moved
\* by minY and maxY
addFontMetricsTopBottom(minY, maxY) == << 0 + minY, 0 + maxY >>

scale(s, sx, sy) ==
    [s EXCEPT !.w = s.w \o addDraw(SCALE, 1 * kUInt32Size + 2 * SizeofSkScalar) \o << sx, sy >>]

skew(s, sx, sy) ==
    [s EXCEPT !.w = s.w \o addDraw(SKEW, 1 * kUInt32Size + 2 * SizeofSkScalar) \o << sx, sy >>]

drawPaint(s, paint) ==
    LET p == findAndReturnFlat(s.paints, paint)
    IN [s EXCEPT !.w = s.w \o addDraw(DRAW_PAINT, 2 * kUInt32Size) \o << p.index >>,
                 !.paints = p.dict]

drawPoints(s, mode, count, paint) ==
    LET p == findAndReturnFlat(s.paints, paint)
        size == 4 * kUInt32Size + count * SizeofSkPoint
    IN [s EXCEPT !.w = s.w \o addDraw(DRAW_POINTS, size) \o << p.index, mode, count >>
                           \o writePad(count * SizeofSkPoint),
                 !.paints = p.dict]

drawOval(s, paint) ==
    LET p == findAndReturnFlat(s.paints, paint)
    IN [s EXCEPT !.w = s.w \o addDraw(DRAW_OVAL, 2 * kUInt32Size + SizeofSkRect)
                           \o << p.index >> \o RectWords,
                 !.paints = p.dict]

\* drawBitmapRectToRect: src may be NULL
drawBitmapRectToRect(s, bitmap, src, paint, flags) ==
    LET p == addPaintPtr(s.paints, paint)
        b == findAndReturnFlat(s.bitmaps, bitmap)
        size == 5 * kUInt32Size + (IF src THEN SizeofSkRect ELSE 0) + SizeofSkRect
    IN [s EXCEPT !.w = s.w \o addDraw(DRAW_BITMAP_RECT_TO_RECT, size)
                           \o << p.index, b.index >> \o addRectPtr(src)
                           \o RectWords \o << flags >>,
                 !.paints = p.dict,
                 !.bitmaps = b.dict]

drawBitmapNine(s, bitmap, paint) ==
    LET p == addPaintPtr(s.paints, paint)
        b == findAndReturnFlat(s.bitmaps, bitmap)
        size == 3 * kUInt32Size + SizeofSkIRect + SizeofSkRect
    IN [s EXCEPT !.w = s.w \o addDraw(DRAW_BITMAP_NINE, size)
                           \o << p.index, b.index >> \o RectWords \o RectWords,
                 !.paints = p.dict,
                 !.bitmaps = b.dict]

drawSprite(s, bitmap, left, top, paint) ==
    LET p == addPaintPtr(s.paints, paint)
        b == findAndReturnFlat(s.bitmaps, bitmap)
    IN [s EXCEPT !.w = s.w \o addDraw(DRAW_SPRITE, 5 * kUInt32Size)
                           \o << p.index, b.index, left, top >>,
                 !.paints = p.dict,
                 !.bitmaps = b.dict]

\* drawText; fast is !paint.isVerticalText() && paint.canComputeFastBounds()
drawText(s, byteLength, x, y, paint, fast) ==
    LET p == findAndReturnFlat(s.paints, paint)
        size == 3 * kUInt32Size + SkAlign4(byteLength) + 2 * SizeofSkScalar
                + (IF fast THEN 2 * SizeofSkScalar ELSE 0)
        op == IF fast THEN DRAW_TEXT_TOP_BOTTOM ELSE DRAW_TEXT
    IN [s EXCEPT !.w = s.w \o addDraw(op, size) \o << p.index >> \o addText(byteLength)
                           \o << x, y >>
                           \o (IF fast THEN addFontMetricsTopBottom(y, y) ELSE << >>),
                 !.paints = p.dict]

\* the loop of drawPosText over pos[1..]: [canUseDrawH, minY, maxY]
RECURSIVE PosTextScan(_, _, _)
PosTextScan(pos, index, acc) ==
    IF index > Len(pos) THEN acc
    ELSE PosTextScan(pos, index + 1,
           IF pos[index].fY # pos[1].fY
           THEN [canUseDrawH |-> FALSE,
                 minY |-> IF pos[index].fY < acc.minY THEN pos[index].fY ELSE acc.minY,
                 maxY |-> IF pos[index].fY < acc.minY THEN acc.maxY
                          ELSE IF pos[index].fY > acc.maxY THEN pos[index].fY
                          ELSE acc.maxY]
           ELSE acc)

\* the words of an array of points
PointWords(pos) ==
    [i \in 1..(2 * Len(pos)) |->
        IF i % 2 = 1 THEN pos[(i + 1) \div 2].fX ELSE pos[i \div 2].fY]

\* a drawPosText that leaves the top and bottom out of the size
drawPosText_TopBottomUnsized(s, byteLength, pos, paint, fastBounds) ==
    LET points == Len(pos)
    IN IF 0 = points THEN s
       ELSE LET scan == PosTextScan(pos, 2, [canUseDrawH |-> TRUE,
                                             minY |-> pos[1].fY, maxY |-> pos[1].fY])
                canUseDrawH == scan.canUseDrawH
                fast == canUseDrawH /\ fastBounds
                p == findAndReturnFlat(s.paints, paint)
                size == 3 * kUInt32Size + SkAlign4(byteLength) + 1 * kUInt32Size
                        + (IF canUseDrawH
                           THEN SizeofSkScalar + points * SizeofSkScalar
                           ELSE points * SizeofSkPoint)
                op == IF fast THEN DRAW_POS_TEXT_H_TOP_BOTTOM
                      ELSE IF canUseDrawH THEN DRAW_POS_TEXT_H
                      ELSE IF fastBounds THEN DRAW_POS_TEXT_TOP_BOTTOM
                      ELSE DRAW_POS_TEXT
            IN [s EXCEPT !.w = s.w \o addDraw(op, size) \o << p.index >>
                                   \o addText(byteLength) \o << points >>
                                   \o (IF canUseDrawH
                                       THEN (IF fast
                                             THEN addFontMetricsTopBottom(pos[1].fY, pos[1].fY)
                                             ELSE << >>)
                                            \o << pos[1].fY >>
                                            \o [i \in 1..points |-> pos[i].fX]
                                       ELSE PointWords(pos)
                                            \o (IF fastBounds
                                                THEN addFontMetricsTopBottom(scan.minY, scan.maxY)
                                                ELSE << >>)),
                         !.paints = p.dict]

\* drawPosText; points is paint.countText(text, byteLength), the number of
\* positions given, and fastBounds is
\* !paint.isVerticalText() && paint.canComputeFastBounds()
drawPosText(s, byteLength, pos, paint, fastBounds) ==
    LET points == Len(pos)
    IN IF 0 = points THEN s
       ELSE LET scan == PosTextScan(pos, 2, [canUseDrawH |-> TRUE,
                                             minY |-> pos[1].fY, maxY |-> pos[1].fY])
                canUseDrawH == scan.canUseDrawH
                fast == canUseDrawH /\ fastBounds
                p == findAndReturnFlat(s.paints, paint)
                size == 3 * kUInt32Size + SkAlign4(byteLength) + 1 * kUInt32Size
                        + (IF canUseDrawH
                           THEN (IF fast THEN 2 * SizeofSkScalar ELSE 0)
                                + SizeofSkScalar + points * SizeofSkScalar
                           ELSE points * SizeofSkPoint
                                + (IF fastBounds THEN 2 * SizeofSkScalar ELSE 0))
                op == IF fast THEN DRAW_POS_TEXT_H_TOP_BOTTOM
                      ELSE IF canUseDrawH THEN DRAW_POS_TEXT_H
                      ELSE IF fastBounds THEN DRAW_POS_TEXT_TOP_BOTTOM
                      ELSE DRAW_POS_TEXT
            IN [s EXCEPT !.w = s.w \o addDraw(op, size) \o << p.index >>
                                   \o addText(byteLength) \o << points >>
                                   \o (IF canUseDrawH
                                       THEN (IF fast
                                             THEN addFontMetricsTopBottom(pos[1].fY, pos[1].fY)
                                             ELSE << >>)
                                            \o << pos[1].fY >>
                                            \o [i \in 1..points |-> pos[i].fX]
                                       ELSE PointWords(pos)
                                            \o (IF fastBounds
                                                THEN addFontMetricsTopBottom(scan.minY, scan.maxY)
                                                ELSE << >>)),
                         !.paints = p.dict]

\* drawPosTextHImpl, for the flat paint that drawPosTextH has looked up
drawPosTextHImpl(s, byteLength, xpos, constY, fast, flatPaintIndex) ==
    LET points == Len(xpos)
    IN IF 0 = points THEN s
       ELSE LET size == 3 * kUInt32Size + SkAlign4(byteLength) + 1 * kUInt32Size
                        + (IF fast THEN 2 * SizeofSkScalar ELSE 0)
                        + 1 * kUInt32Size + points * SizeofSkScalar
                op == IF fast THEN DRAW_POS_TEXT_H_TOP_BOTTOM ELSE DRAW_POS_TEXT_H
            IN [s EXCEPT !.w = s.w \o addDraw(op, size) \o << flatPaintIndex >>
                                   \o addText(byteLength) \o << points >>
                                   \o (IF fast THEN addFontMetricsTopBottom(constY, constY)
                                       ELSE << >>)
                                   \o << constY >> \o xpos]

drawPosTextH(s, byteLength, xpos, constY, paint, fast) ==
    LET p == findAndReturnFlat(s.paints, paint)
    IN drawPosTextHImpl([s EXCEPT !.paints = p.dict], byteLength, xpos, constY, fast, p.index)

\* the bits of the flags word of DRAW_VERTICES
DrawVertexFlags ==
    [DRAW_VERTICES_HAS_TEXS |-> 1, DRAW_VERTICES_HAS_COLORS |-> 2,
     DRAW_VERTICES_HAS_INDICES |-> 4, DRAW_VERTICES_HAS_XFER |-> 8]

\* drawVertices; texs and colors say whether the arrays are given, xfer
\* whether there is an xfermode with a mode other than kModulate_Mode
drawVertices(s, vmode, vertexCount, texs, colors, xfer, indexCount, paint) ==
    LET p == findAndReturnFlat(s.paints, paint)
        hasIndices == indexCount > 0
        flags == (IF texs THEN DrawVertexFlags.DRAW_VERTICES_HAS_TEXS ELSE 0)
                 + (IF colors THEN DrawVertexFlags.DRAW_VERTICES_HAS_COLORS ELSE 0)
                 + (IF hasIndices THEN DrawVertexFlags.DRAW_VERTICES_HAS_INDICES ELSE 0)
                 + (IF xfer THEN DrawVertexFlags.DRAW_VERTICES_HAS_XFER ELSE 0)
        size == 5 * kUInt32Size + vertexCount * SizeofSkPoint
                + (IF texs THEN vertexCount * SizeofSkPoint ELSE 0)
                + (IF colors THEN vertexCount * SizeofSkColor ELSE 0)
                + (IF hasIndices THEN 1 * kUInt32Size + SkAlign4(indexCount * 2) ELSE 0)
                + (IF xfer THEN kUInt32Size ELSE 0)
    IN [s EXCEPT !.w = s.w \o addDraw(DRAW_VERTICES, size)
                           \o << p.index, flags, vmode, vertexCount >>
                           \o writePad(vertexCount * SizeofSkPoint)
                           \o (IF texs THEN writePad(vertexCount * SizeofSkPoint) ELSE << >>)
                           \o (IF colors THEN writePad(vertexCount * SizeofSkColor) ELSE << >>)
                           \o (IF hasIndices
                               THEN << indexCount >> \o writePad(indexCount * 2)
                               ELSE << >>)
                           \o (IF xfer THEN << 0 >> ELSE << >>),
                 !.paints = p.dict]

drawData(s, length) ==
    [s EXCEPT !.w = s.w \o addDraw(DRAW_DATA, 2 * kUInt32Size + SkAlign4(length))
                        \o << length >> \o writePad(length)]

\* beginCommentGroup of a description of length characters
beginCommentGroup(s, length) ==
    [s EXCEPT !.w = s.w \o addDraw(BEGIN_COMMENT_GROUP, 2 * kUInt32Size + SkAlign4(length + 1))
                        \o writeString(length)]

addComment(s, kywdLen, valueLen) ==
    [s EXCEPT !.w = s.w \o addDraw(COMMENT, 3 * kUInt32Size + SkAlign4(kywdLen + 1)
                                                + SkAlign4(valueLen + 1))
                        \o writeString(kywdLen) \o writeString(valueLen)]

endCommentGroup(s) ==
    [s EXCEPT !.w = s.w \o addDraw(END_COMMENT_GROUP, 1 * kUInt32Size)]

\* SkTDArray::find: the 0-based index of the first elem, -1 when absent
find(array, elem) ==
    IF \E i \in 1..Len(array) : array[i] = elem
    THEN (CHOOSE i \in 1..Len(array) :
             array[i] = elem /\ \A j \in 1..(i - 1) : array[j] # elem) - 1
    ELSE -1

\* SkTDArray::unrefAll on the counts: one unref for each entry of the array
unrefAll(array, refCnt) ==
    [picture \in DOMAIN refCnt |->
        refCnt[picture] - Cardinality({i \in 1..Len(array) : array[i] = picture})]

\* an addPicture that never looks the picture up
addPicture_NoFind(s, picture) ==
    [s EXCEPT !.pictures = Append(s.pictures, picture),
              !.refCnt = [s.refCnt EXCEPT ![picture] = @ + 1],
              !.w = Append(s.w, Len(s.pictures) + 1)]

\* an addPicture that takes a reference each time
addPicture_RefAlways(s, picture) ==
    LET index == find(s.pictures, picture)
    IN IF index < 0
       THEN [s EXCEPT !.pictures = Append(s.pictures, picture),
                      !.refCnt = [s.refCnt EXCEPT ![picture] = @ + 1],
                      !.w = Append(s.w, Len(s.pictures) + 1)]
       ELSE [s EXCEPT !.refCnt = [s.refCnt EXCEPT ![picture] = @ + 1],
                      !.w = Append(s.w, index + 1)]

\* addPicture: a picture not met before is appended and referenced; the
\* index recorded is 1-based
addPicture(s, picture) ==
    LET index == find(s.pictures, picture)
    IN IF index < 0
       THEN [s EXCEPT !.pictures = Append(s.pictures, picture),
                      !.refCnt = [s.refCnt EXCEPT ![picture] = @ + 1],
                      !.w = Append(s.w, Len(s.pictures) + 1)]
       ELSE [s EXCEPT !.w = Append(s.w, index + 1)]

drawPicture(s, picture) ==
    addPicture([s EXCEPT !.w = s.w \o addDraw(DRAW_PICTURE, 2 * kUInt32Size)], picture)

\* ~SkPictureRecord: fPictureRefs.unrefAll()
Destructor(s) ==
    [s EXCEPT !.refCnt = unrefAll(s.pictures, s.refCnt), !.pictures = << >>]

\* SkCanvas::restoreToCount: restore() called getSaveCount() - count times
RECURSIVE RestoreTimes(_, _)
RestoreTimes(s, n) ==
    IF n > 0 /\ s.st = "ok"
    THEN CHOOSE r \in { RestoreTimes(t, n - 1) : t \in {restore(s)} } : TRUE
    ELSE s

restoreToCount(s, count) ==
    RestoreTimes(s, s.count - (IF count < 1 THEN 1 ELSE count))

beginRecording(s) == save(s, kMatrixClip_SaveFlag)

\* an endRecording that leaves the open scopes open
endRecording_NoRestore(s, initialSaveCount) == s

endRecording(s, initialSaveCount) == restoreToCount(s, initialSaveCount)

---------------------------------------------------------------------------
(* The state machine: one action per recorder call.                        *)

Rgb == [white |-> 16777215, red |-> 16711680]

P_layer == Paint(Color(128, Rgb.white), 0)

P_layerRed == Paint(Color(128, Rgb.red), 0)

P_draw == Paint(Color(255, Rgb.red), 0)

\* P_draw with an effect on it
P_drawEffect == Paint(Color(255, Rgb.red), 1)

\* the SkPicture objects there are to draw
Pictures == {"pictureA", "pictureB", "pictureC"}

\* the red of P_draw, not opaque
P_drawHalf == Paint(Color(64, Rgb.red), 0)

\* the recorder's fields as one record
Cur ==
    [w |-> fWriter, stack |-> fRestoreOffsetStack, first |-> fFirstSavedLayerIndex,
     paints |-> fPaints, bitmaps |-> fBitmapHeap,
     pictures |-> fPictureRefs, refCnt |-> pictureRefCnt, flags |-> fRecordFlags,
     bbh |-> fBoundingHierarchy, tree |-> fStateTree, calls |-> hookCalls,
     count |-> saveCount, st |-> status, opt |-> lastOpt]

\* one entry of hist; the entry of a clip call has one field more, ret,
\* what the helper that recorded the clip returned
Call(name) ==
    [call |-> name, flags |-> 0, op |-> "", paint |-> NullPaint, bounds |-> FALSE, len |-> 0]

\* the recorder's fields become those of s, and the call is noted
Becomes(s, c) ==
    /\ fWriter' = s.w
    /\ fRestoreOffsetStack' = s.stack
    /\ fFirstSavedLayerIndex' = s.first
    /\ fPaints' = s.paints
    /\ fBitmapHeap' = s.bitmaps
    /\ fPictureRefs' = s.pictures
    /\ pictureRefCnt' = s.refCnt
    /\ saveCount' = s.count
    /\ status' = s.st
    /\ lastOpt' = s.opt
    /\ hookCalls' = s.calls
    /\ hist' = Append(hist, [c EXCEPT !.len = bytesWritten(s.w)])
    /\ UNCHANGED << fRecordFlags, fBoundingHierarchy, fStateTree, callLimit >>

\* a call can be made: recording has begun and not ended, nothing has
\* gone wrong, and the bound leaves room for it and for endRecording
CanCall == phase = "recording" /\ status = "ok" /\ Len(hist) < callLimit - 1

Init ==
    /\ fWriter = << >>
    /\ fRestoreOffsetStack = << >>
    /\ fFirstSavedLayerIndex = kNoSavedLayerIndex
    /\ fPaints = << >>
    /\ fBitmapHeap = << >>
    /\ fPictureRefs = << >>
    /\ pictureRefCnt = [picture \in Pictures |-> 1]
    /\ fInitialSaveCount = kNoInitialSave
    /\ fRecordFlags = {}
    /\ fBoundingHierarchy = FALSE
    /\ fStateTree = FALSE
    /\ hookCalls = NoHookCalls
    /\ saveCount = 1
    /\ status = "ok"
    /\ phase = "constructed"
    /\ lastOpt = "none"
    /\ callLimit = MaxCalls
    /\ hist = << >>

BeginRecording ==
    /\ phase = "constructed"
    /\ phase' = "recording"
    /\ fInitialSaveCount' = saveCount
    /\ \E s \in {beginRecording(Cur)} :
          Becomes(s, [Call("beginRecording") EXCEPT !.flags = kMatrixClip_SaveFlag])

EndRecording ==
    /\ phase = "recording" /\ status = "ok"
    /\ phase' = "ended"
    /\ \E s \in {endRecording(Cur, fInitialSaveCount)} : Becomes(s, Call("endRecording"))
    /\ UNCHANGED fInitialSaveCount

Save(flags) ==
    /\ CanCall
    /\ \E s \in {save(Cur, flags)} : Becomes(s, [Call("save") EXCEPT !.flags = flags])
    /\ UNCHANGED << phase, fInitialSaveCount >>

SaveLayer(bounds, paint) ==
    /\ CanCall
    /\ \E s \in {saveLayer(Cur, bounds, paint, kARGB_ClipLayer_SaveFlag)} :
          Becomes(s, [Call("saveLayer") EXCEPT !.bounds = bounds, !.paint = paint])
    /\ UNCHANGED << phase, fInitialSaveCount >>

Restore ==
    /\ CanCall
    /\ \E s \in {restore(Cur)} : Becomes(s, Call("restore"))
    /\ UNCHANGED << phase, fInitialSaveCount >>

Translate ==
    /\ CanCall
    /\ \E s \in {translate(Cur, SkScalarBits.one, SkScalarBits.two)} :
          Becomes(s, Call("translate"))
    /\ UNCHANGED << phase, fInitialSaveCount >>

ClipRect(op) ==
    /\ CanCall
    /\ \E s \in {clipRect(Cur, op, FALSE)}, ret \in {recordClipRect(Cur, op, FALSE).offset} :
          Becomes(s, [ret |-> ret] @@ [Call("clipRect") EXCEPT !.op = op])
    /\ UNCHANGED << phase, fInitialSaveCount >>

ClipPath(op) ==
    /\ CanCall
    /\ \E s \in {clipPath(Cur, 1, op, FALSE)}, ret \in {recordClipPath(Cur, 1, op, FALSE).offset} :
          Becomes(s, [ret |-> ret] @@ [Call("clipPath") EXCEPT !.op = op])
    /\ UNCHANGED << phase, fInitialSaveCount >>

Clear(color) ==
    /\ CanCall
    /\ \E s \in {clear(Cur, color)} : Becomes(s, [Call("clear") EXCEPT !.flags = color])
    /\ UNCHANGED << phase, fInitialSaveCount >>

DrawRect(paint) ==
    /\ CanCall
    /\ \E s \in {drawRect(Cur, paint)} : Becomes(s, [Call("drawRect") EXCEPT !.paint = paint])
    /\ UNCHANGED << phase, fInitialSaveCount >>

DrawBitmap(paint) ==
    /\ CanCall
    /\ \E s \in {drawBitmap(Cur, TheBitmap, SkScalarBits.zero, SkScalarBits.zero, paint)} :
          Becomes(s, [Call("drawBitmap") EXCEPT !.paint = paint])
    /\ UNCHANGED << phase, fInitialSaveCount >>

DrawPicture(picture) ==
    /\ CanCall
    /\ \E s \in {drawPicture(Cur, picture)} :
          Becomes(s, [picture |-> picture] @@ Call("drawPicture"))
    /\ UNCHANGED << phase, fInitialSaveCount >>

\* the recorder is destroyed, at any time of its life
Destroy ==
    /\ phase # "destroyed" /\ status = "ok"
    /\ phase' = "destroyed"
    /\ \E s \in {Destructor(Cur)} :
          /\ fPictureRefs' = s.pictures
          /\ pictureRefCnt' = s.refCnt
    /\ UNCHANGED << fWriter, fRestoreOffsetStack, fFirstSavedLayerIndex, fPaints,
                    fBitmapHeap, fInitialSaveCount, fRecordFlags,
                    fBoundingHierarchy, fStateTree, hookCalls, saveCount, status,
                    lastOpt, callLimit,
                    hist >>

\* scopes, clips and draws without layers
Next ==
    \/ BeginRecording
    \/ \E flags \in {kMatrixClip_SaveFlag, kMatrix_SaveFlag} : Save(flags)
    \/ Restore
    \/ Translate
    \/ \E op \in {"Intersect", "Union"} : ClipRect(op)
    \/ DrawRect(P_draw)
    \/ Clear(kMatrixClip_SaveFlag)
    \/ EndRecording

Spec == Init /\ [][Next]_vars

\* layers and bitmap draws
NextLayer ==
    \/ BeginRecording
    \/ \E paint \in {NullPaint, P_layer, P_layerRed} : SaveLayer(FALSE, paint)
    \/ \E paint \in {NullPaint, P_layerRed} : SaveLayer(TRUE, paint)
    \/ \E paint \in {NullPaint, P_draw, P_drawHalf} : DrawBitmap(paint)
    \/ Translate
    \/ ClipPath("Intersect")
    \/ Restore
    \/ EndRecording

SpecLayer == Init /\ [][NextLayer]_vars

\* scopes and layers together
NextAll ==
    \/ BeginRecording
    \/ \E flags \in {kMatrixClip_SaveFlag, kMatrix_SaveFlag} : Save(flags)
    \/ SaveLayer(FALSE, NullPaint)
    \/ DrawBitmap(P_draw)
    \/ Translate
    \/ \E op \in {"Intersect", "Union"} : ClipRect(op)
    \/ Restore
    \/ EndRecording

SpecAll == Init /\ [][NextAll]_vars

\* a recorder that records into a bounding box hierarchy
InitBBH ==
    /\ fWriter = << >>
    /\ fRestoreOffsetStack = << >>
    /\ fFirstSavedLayerIndex = kNoSavedLayerIndex
    /\ fPaints = << >>
    /\ fBitmapHeap = << >>
    /\ fPictureRefs = << >>
    /\ pictureRefCnt = [picture \in Pictures |-> 1]
    /\ fInitialSaveCount = kNoInitialSave
    /\ fRecordFlags = {}
    /\ fBoundingHierarchy = TRUE
    /\ fStateTree = FALSE
    /\ hookCalls = NoHookCalls
    /\ saveCount = 1
    /\ status = "ok"
    /\ phase = "constructed"
    /\ lastOpt = "none"
    /\ callLimit = MaxCalls
    /\ hist = << >>

SpecBBH == InitBBH /\ [][NextAll]_vars

\* scopes with clips of every region op, and draws
NextClip ==
    \/ BeginRecording
    \/ Save(kMatrix_SaveFlag)
    \/ \E op \in RegionOps : ClipRect(op)
    \/ DrawRect(P_draw)
    \/ Restore
    \/ EndRecording

SpecClip == Init /\ [][NextClip]_vars

\* a recorder with or without a hierarchy and with or without a state tree
InitHooks ==
    /\ fWriter = << >>
    /\ fRestoreOffsetStack = << >>
    /\ fFirstSavedLayerIndex = kNoSavedLayerIndex
    /\ fPaints = << >>
    /\ fBitmapHeap = << >>
    /\ fPictureRefs = << >>
    /\ pictureRefCnt = [picture \in Pictures |-> 1]
    /\ fInitialSaveCount = kNoInitialSave
    /\ fRecordFlags = {}
    /\ fBoundingHierarchy \in BOOLEAN
    /\ fStateTree \in BOOLEAN
    /\ hookCalls = NoHookCalls
    /\ saveCount = 1
    /\ status = "ok"
    /\ phase = "constructed"
    /\ lastOpt = "none"
    /\ callLimit = MaxCalls
    /\ hist = << >>

SpecHooks == InitHooks /\ [][NextAll]_vars

\* a recorder given the calls it takes to nest a scope in a layer
InitDeep ==
    /\ fWriter = << >>
    /\ fRestoreOffsetStack = << >>
    /\ fFirstSavedLayerIndex = kNoSavedLayerIndex
    /\ fPaints = << >>
    /\ fBitmapHeap = << >>
    /\ fPictureRefs = << >>
    /\ pictureRefCnt = [picture \in Pictures |-> 1]
    /\ fInitialSaveCount = kNoInitialSave
    /\ fRecordFlags = {}
    /\ fBoundingHierarchy = FALSE
    /\ fStateTree = FALSE
    /\ hookCalls = NoHookCalls
    /\ saveCount = 1
    /\ status = "ok"
    /\ phase = "constructed"
    /\ lastOpt = "none"
    /\ callLimit = MaxCallsDeep
    /\ hist = << >>

\* a layer without bounds, and a scope with a clip and a bitmap draw
NextDeep ==
    \/ BeginRecording
    \/ \E paint \in {NullPaint, P_layerRed} : SaveLayer(FALSE, paint)
    \/ Save(kMatrixClip_SaveFlag)
    \/ ClipRect("Intersect")
    \/ \E paint \in {NullPaint, P_draw} : DrawBitmap(paint)
    \/ Restore

SpecDeep == InitDeep /\ [][NextDeep]_vars

\* the number of calls of a recording in which every command is tried
MaxCallsSizes == 4

\* the positions of a text: none, one, two on a line, and two that rise
\* or fall
PosArrays ==
    { << >>,
      << [fX |-> 1, fY |-> 5] >>,
      << [fX |-> 1, fY |-> 5], [fX |-> 2, fY |-> 5] >>,
      << [fX |-> 1, fY |-> 5], [fX |-> 2, fY |-> 7] >>,
      << [fX |-> 1, fY |-> 5], [fX |-> 2, fY |-> 3] >> }

\* a call of one of the other commands: its name and its arguments, n a
\* length or count, a and b two flags of the call
Args(call, n, pos, a, b) == [call |-> call, n |-> n, pos |-> pos, a |-> a, b |-> b]

OtherCalls ==
    { Args(call, 0, << >>, FALSE, FALSE) :
        call \in {"scale", "skew", "drawPaint", "drawOval", "drawBitmapNine",
                  "drawSprite", "endCommentGroup"} }
    \cup { Args("drawBitmapRectToRect", 0, << >>, src, FALSE) : src \in BOOLEAN }
    \cup { Args("drawText", byteLength, << >>, fast, FALSE) :
             byteLength \in {0, 5}, fast \in BOOLEAN }
    \cup { Args("drawPosText", 3, pos, fastBounds, FALSE) :
             pos \in PosArrays, fastBounds \in BOOLEAN }
    \cup { Args("drawPosTextH", 4, pos, fast, FALSE) :
             pos \in {p \in PosArrays : Len(p) # 1}, fast \in BOOLEAN }
    \cup { Args("drawPoints", count, << >>, FALSE, FALSE) : count \in {0, 2} }
    \cup { Args("drawVertices", indexCount, << >>, arrays, xfer) :
             indexCount \in {0, 3}, arrays \in BOOLEAN, xfer \in BOOLEAN }
    \cup { Args("drawData", length, << >>, FALSE, FALSE) : length \in {0, 3, 4} }
    \cup { Args("beginCommentGroup", length, << >>, FALSE, FALSE) : length \in {0, 3} }
    \cup { Args("addComment", length, << >>, FALSE, FALSE) : length \in {3, 4} }

\* the recorder after the call m
Invoke(s, m) ==
    CASE m.call = "scale" -> scale(s, SkScalarBits.one, SkScalarBits.two)
      [] m.call = "skew" -> skew(s, SkScalarBits.one, SkScalarBits.two)
      [] m.call = "drawPaint" -> drawPaint(s, P_draw)
      [] m.call = "drawOval" -> drawOval(s, P_draw)
      [] m.call = "drawBitmapNine" -> drawBitmapNine(s, TheBitmap, NullPaint)
      [] m.call = "drawSprite" -> drawSprite(s, TheBitmap, 0, 0, NullPaint)
      [] m.call = "endCommentGroup" -> endCommentGroup(s)
      [] m.call = "drawBitmapRectToRect" -> drawBitmapRectToRect(s, TheBitmap, m.a, P_draw, 0)
      [] m.call = "drawText" -> drawText(s, m.n, 1, 5, P_draw, m.a)
      [] m.call = "drawPosText" -> drawPosText(s, m.n, m.pos, P_draw, m.a)
      [] m.call = "drawPosTextH" ->
            drawPosTextH(s, m.n, [i \in 1..Len(m.pos) |-> m.pos[i].fX], 5, P_draw, m.a)
      [] m.call = "drawPoints" -> drawPoints(s, 0, m.n, P_draw)
      [] m.call = "drawVertices" -> drawVertices(s, 0, 3, m.a, m.a, m.b, m.n, P_draw)
      [] m.call = "drawData" -> drawData(s, m.n)
      [] m.call = "beginCommentGroup" -> beginCommentGroup(s, m.n)
      [] m.call = "addComment" -> addComment(s, m.n, m.n + 1)

Record(m) ==
    /\ CanCall
    /\ \E s \in {Invoke(Cur, m)} : Becomes(s, [args |-> m] @@ Call(m.call))
    /\ UNCHANGED << phase, fInitialSaveCount >>

\* a recorder given two calls, of any command
InitSizes ==
    /\ fWriter = << >>
    /\ fRestoreOffsetStack = << >>
    /\ fFirstSavedLayerIndex = kNoSavedLayerIndex
    /\ fPaints = << >>
    /\ fBitmapHeap = << >>
    /\ fPictureRefs = << >>
    /\ pictureRefCnt = [picture \in Pictures |-> 1]
    /\ fInitialSaveCount = kNoInitialSave
    /\ fRecordFlags = {}
    /\ fBoundingHierarchy = FALSE
    /\ fStateTree = FALSE
    /\ hookCalls = NoHookCalls
    /\ saveCount = 1
    /\ status = "ok"
    /\ phase = "constructed"
    /\ lastOpt = "none"
    /\ callLimit = MaxCallsSizes
    /\ hist = << >>

NextSizes ==
    \/ BeginRecording
    \/ Save(kMatrixClip_SaveFlag)
    \/ \E bounds \in BOOLEAN : SaveLayer(bounds, NullPaint)
    \/ Restore
    \/ Translate
    \/ \E op \in {"Intersect", "Union"} : ClipRect(op)
    \/ ClipPath("Intersect")
    \/ Clear(0)
    \/ DrawRect(P_draw)
    \/ DrawBitmap(P_draw)
    \/ DrawPicture("pictureA")
    \/ \E m \in OtherCalls : Record(m)
    \/ EndRecording

SpecSizes == InitSizes /\ [][NextSizes]_vars

\* scopes with clips in them, and a draw long enough to reach past the
\* offsets the clips had
NextScopes ==
    \/ BeginRecording
    \/ Save(kMatrix_SaveFlag)
    \/ \E op \in {"Intersect", "Union"} : ClipRect(op)
    \/ Record(Args("drawBitmapRectToRect", 0, << >>, TRUE, FALSE))
    \/ Restore
    \/ EndRecording

SpecScopes == InitDeep /\ [][NextScopes]_vars

\* the number of calls of a recording long enough to reuse the frames that
\* a rewind has left on the stack
MaxCallsLong == 11

\* a recorder given that many calls
InitLong ==
    /\ fWriter = << >>
    /\ fRestoreOffsetStack = << >>
    /\ fFirstSavedLayerIndex = kNoSavedLayerIndex
    /\ fPaints = << >>
    /\ fBitmapHeap = << >>
    /\ fPictureRefs = << >>
    /\ pictureRefCnt = [picture \in Pictures |-> 1]
    /\ fInitialSaveCount = kNoInitialSave
    /\ fRecordFlags = {}
    /\ fBoundingHierarchy = FALSE
    /\ fStateTree = FALSE
    /\ hookCalls = NoHookCalls
    /\ saveCount = 1
    /\ status = "ok"
    /\ phase = "constructed"
    /\ lastOpt = "none"
    /\ callLimit = MaxCallsLong
    /\ hist = << >>

\* scopes and region-expanding clips
NextLong ==
    \/ BeginRecording
    \/ Save(kMatrix_SaveFlag)
    \/ ClipRect("XOR")
    \/ Restore
    \/ EndRecording

SpecLong == InitLong /\ [][NextLong]_vars

\* nested pictures and paints, in scopes and layers, to the recorder's end
NextNested ==
    \/ BeginRecording
    \/ \E picture \in Pictures : DrawPicture(picture)
    \/ \E paint \in {P_draw, P_drawEffect} : DrawBitmap(paint)
    \/ SaveLayer(FALSE, P_layerRed)
    \/ Save(kMatrixClip_SaveFlag)
    \/ Restore
    \/ EndRecording
    \/ Destroy

SpecNested == Init /\ [][NextNested]_vars

\* a recorder constructed with kDisableRecordOptimizations_RecordingFlag
InitDisabled ==
    /\ fWriter = << >>
    /\ fRestoreOffsetStack = << >>
    /\ fFirstSavedLayerIndex = kNoSavedLayerIndex
    /\ fPaints = << >>
    /\ fBitmapHeap = << >>
    /\ fPictureRefs = << >>
    /\ pictureRefCnt = [picture \in Pictures |-> 1]
    /\ fInitialSaveCount = kNoInitialSave
    /\ fRecordFlags = {"kDisableRecordOptimizations_RecordingFlag"}
    /\ fBoundingHierarchy = FALSE
    /\ fStateTree = FALSE
    /\ hookCalls = NoHookCalls
    /\ saveCount = 1
    /\ status = "ok"
    /\ phase = "constructed"
    /\ lastOpt = "none"
    /\ callLimit = MaxCalls
    /\ hist = << >>

SpecDisabled == InitDisabled /\ [][NextAll]_vars

-----------------------------------------------------------------------------
\* The opcode codec on its own: headers of any declared size are written
\* without their payloads, and blanked by convert_command_to_noop.

MaxHeaders == 2

\* the declared sizes tried: two that fit and the three around the marker
CodecSizes ==
    {kUInt32Size, kSaveLayerNoBoundsSize, MASK_24 - 1, MASK_24, MASK_24 + 1}

\* the opcodes of the headers after the first
CodecOps == {DRAW_BITMAP, SAVE_LAYER}

Header(drawType, size, offset, len) ==
    [call |-> "addDraw", drawType |-> drawType, size |-> size,
     offset |-> offset, len |-> len]

CodecRest ==
    << fRestoreOffsetStack, fFirstSavedLayerIndex, fPaints, fBitmapHeap,
       fPictureRefs, pictureRefCnt, fInitialSaveCount, fRecordFlags, fBoundingHierarchy,
       fStateTree, hookCalls, saveCount, status, phase, lastOpt, callLimit >>

\* the first header is of any opcode and any of the sizes
InitCodec ==
    /\ \E drawType \in UNUSED..LAST_DRAWTYPE_ENUM, size \in CodecSizes :
          /\ fWriter = addDraw(drawType, size)
          /\ hist = << Header(drawType, size, 0, bytesWritten(fWriter)) >>
    /\ fRestoreOffsetStack = << >>
    /\ fFirstSavedLayerIndex = kNoSavedLayerIndex
    /\ fPaints = << >>
    /\ fBitmapHeap = << >>
    /\ fPictureRefs = << >>
    /\ pictureRefCnt = [picture \in Pictures |-> 1]
    /\ fInitialSaveCount = kNoInitialSave
    /\ fRecordFlags = {}
    /\ fBoundingHierarchy = FALSE
    /\ fStateTree = FALSE
    /\ hookCalls = NoHookCalls
    /\ saveCount = 1
    /\ status = "ok"
    /\ phase = "codec"
    /\ lastOpt = "none"
    /\ callLimit = MaxCalls

Headers == { i \in 1..Len(hist) : hist[i].call = "addDraw" }

\* addDraw(drawType, &size): the header goes to the end of the writer
EmitHeader(drawType, size) ==
    /\ phase = "codec"
    /\ Cardinality(Headers) < MaxHeaders
    /\ fWriter' = fWriter \o addDraw(drawType, size)
    /\ hist' = Append(hist, Header(drawType, size, bytesWritten(fWriter),
                                   bytesWritten(fWriter')))
    /\ UNCHANGED CodecRest

\* convert_command_to_noop(&fWriter, offset) at the offset of a header
ConvertToNoop(i) ==
    /\ phase = "codec"
    /\ i \in Headers
    /\ \A j \in 1..Len(hist) :
          ~(hist[j].call = "convert_command_to_noop" /\ hist[j].offset = hist[i].offset)
    /\ fWriter' = convert_command_to_noop(fWriter, hist[i].offset)
    /\ hist' = Append(hist, [call |-> "convert_command_to_noop",
                             offset |-> hist[i].offset, len |-> bytesWritten(fWriter')])
    /\ UNCHANGED CodecRest

NextCodec ==
    \/ \E drawType \in CodecOps, size \in CodecSizes : EmitHeader(drawType, size)
    \/ \E i \in 1..(2 * MaxHeaders) : ConvertToNoop(i)

SpecCodec == InitCodec /\ [][NextCodec]_vars

-----------------------------------------------------------------------------
\* Reading the stream back, and the scopes the calls have opened

\* the commands met from offset by adding each command's size:
\* [ok, cmds], ok when the walk lands exactly on the writer's length
RECURSIVE ParseFrom(_, _, _)
ParseFrom(w, offset, acc) ==
    IF offset >= bytesWritten(w)
    THEN [ok |-> offset = bytesWritten(w), cmds |-> acc]
    ELSE CHOOSE r \in
           { IF pk.st # "ok" \/ pk.size = 0
             THEN [ok |-> FALSE, cmds |-> acc]
             ELSE ParseFrom(w, pk.next,
                            acc \o << [op |-> pk.op, offset |-> pk.at, size |-> pk.size] >>) :
             pk \in { [next |-> offset + k.size, at |-> offset] @@ k :
                      k \in {peek_op_and_size(w, offset)} } } : TRUE

Stream(w) == ParseFrom(w, 0, << >>)

OpsOf(cmds) == [i \in 1..Len(cmds) |-> cmds[i].op]

NotNoop(c) == c.op # NOOP

DrawOps == DRAW_BITMAP..DRAW_VERTICES

ClipOps == {CLIP_PATH, CLIP_REGION, CLIP_RECT, CLIP_RRECT}

AllOps == CLIP_PATH..LAST_DRAWTYPE_ENUM

Last(h) == h[Len(h)]

\* the writer's length before the n-th call
LenBefore(h, n) == IF n = 1 THEN 0 ELSE h[n - 1].len

\* the scopes open after the first n calls, innermost last, each with the
\* call that opened it and the offset its header was written at
RECURSIVE Scopes(_, _)
Scopes(h, n) ==
    IF n = 0 THEN << >>
    ELSE LET prev == Scopes(h, n - 1)
         IN IF h[n].call \in {"beginRecording", "save", "saveLayer"}
            THEN Append(prev, [call |-> h[n].call, flags |-> h[n].flags,
                               paint |-> h[n].paint, bounds |-> h[n].bounds,
                               offset |-> LenBefore(h, n)])
            ELSE IF h[n].call = "restore" /\ prev # << >> THEN Pop(prev)
            ELSE prev

OpenScopes == Scopes(hist, Len(hist))

\* a step that is a restore() call on a non-empty stack, and returns
RestoreStep ==
    /\ status = "ok" /\ status' = "ok"
    /\ Len(hist') = Len(hist) + 1
    /\ Last(hist').call = "restore"
    /\ fRestoreOffsetStack # << >>

\* the last n calls were the calls named
LastCalls(names) ==
    /\ Len(hist) >= Len(names)
    /\ \A i \in 1..Len(names) : hist[Len(hist) - Len(names) + i].call = names[i]

\* the n-th call from the end
Nth(n) == hist[Len(hist) - n + 1]

-----------------------------------------------------------------------------
\* Stack balance

\* the openers among cmds[i..] left without a RESTORE, depth of them open at i
RECURSIVE Unmatched(_, _, _)
Unmatched(cmds, i, depth) ==
    IF i > Len(cmds) THEN depth
    ELSE IF cmds[i].op \in {SAVE, SAVE_LAYER} THEN Unmatched(cmds, i + 1, depth + 1)
    ELSE IF cmds[i].op = RESTORE /\ depth > 0 THEN Unmatched(cmds, i + 1, depth - 1)
    ELSE Unmatched(cmds, i + 1, depth)

\* C1: after endRecording the restore-offset stack is empty, and every SAVE
\* (or SAVE_LAYER) header left in the stream is closed by a RESTORE of its
\* own; a SAVE_LAYER turned into NOOP needs none.
C1_BalancedAfterEnd ==
    (phase = "ended" /\ status = "ok") =>
        /\ fRestoreOffsetStack = << >>
        /\ Stream(fWriter).ok
        /\ Unmatched(Stream(fWriter).cmds, 1, 0) = 0

\* a recording has ended whose stream holds a scope around a draw
C1_Witness ==
    /\ phase = "ended" /\ status = "ok"
    /\ OpsOf(Stream(fWriter).cmds) = << SAVE, SAVE, DRAW_BITMAP, RESTORE, RESTORE >>


\* C2: walking the stream from offset 0 by adding each command's size meets
\* only headers of commands (opcodes of DrawType) and lands exactly on the
\* writer's length, after any sequence of calls.
C2_SizesSumToLength ==
    status = "ok" =>
        /\ Stream(fWriter).ok
        /\ \A i \in 1..Len(Stream(fWriter).cmds) : Stream(fWriter).cmds[i].op \in AllOps

\* a Rule A rewind and a draw have both left a stream that still walks
C2_Witness ==
    /\ status = "ok"
    /\ LastCalls(<< "save", "translate", "restore", "drawBitmap" >>)
    /\ lastOpt = "collapse_save_clip_restore"
    /\ OpsOf(Stream(fWriter).cmds) = << SAVE, DRAW_BITMAP >>
    /\ bytesWritten(fWriter) = kSaveSize + 5 * kUInt32Size


-----------------------------------------------------------------------------
\* Restore-offset placeholders

\* the placeholder word of a clip command, its last word when it has one
HasPlaceholder(c) ==
    \/ c.op = CLIP_RECT /\ c.size = 3 * kUInt32Size + SizeofSkRect
    \/ c.op = CLIP_PATH /\ c.size = 4 * kUInt32Size

PlaceholderOf(w, c) == read32At(w, c.offset + c.size - kUInt32Size)

\* C3: after endRecording every placeholder word of every clip command left
\* in the stream is 0 or the offset of a RESTORE header of the stream.
C3_PlaceholdersResolved ==
    (phase = "ended" /\ status = "ok" /\ Stream(fWriter).ok) =>
        \A i \in 1..Len(Stream(fWriter).cmds) :
            LET c == Stream(fWriter).cmds[i]
            IN (c.op \in ClipOps /\ HasPlaceholder(c)) =>
                 \/ PlaceholderOf(fWriter, c) = 0
                 \/ \E j \in 1..Len(Stream(fWriter).cmds) :
                       /\ Stream(fWriter).cmds[j].op = RESTORE
                       /\ Stream(fWriter).cmds[j].offset = PlaceholderOf(fWriter, c)

-----------------------------------------------------------------------------
\* What the optimizer may erase

DrawCalls == {"clear", "drawRect", "drawBitmap"}

DrawOpOf(call) ==
    IF call = "clear" THEN DRAW_CLEAR
    ELSE IF call = "drawRect" THEN DRAW_RECT
    ELSE DRAW_BITMAP

\* C4: a draw command once emitted stays in the stream at its offset with
\* its opcode, through every later restore(): the optimizer erases no draw.
C4_DrawsStay ==
    status = "ok" =>
        \A n \in 1..Len(hist) :
            hist[n].call \in DrawCalls =>
                /\ InWriter(fWriter, LenBefore(hist, n))
                /\ UnpackOp(read32At(fWriter, LenBefore(hist, n))) = DrawOpOf(hist[n].call)

\* the set the claim calls draw verbs: the DRAW_* opcodes and SAVE_LAYER
InDrawVerbSet(op) == op \in DrawOps \/ op = SAVE_LAYER

\* the innermost open scope was opened by SAVE with MatrixClip, and no
\* command from behind its header to the tail is in the draw-verb set
RuleACondition ==
    /\ OpenScopes # << >>
    /\ Top(OpenScopes).call \in {"beginRecording", "save"}
    /\ Top(OpenScopes).flags = kMatrixClip_SaveFlag
    /\ LET body == ParseFrom(fWriter, Top(OpenScopes).offset + kSaveSize, << >>)
       IN \A i \in 1..Len(body.cmds) : ~InDrawVerbSet(body.cmds[i].op)

\* C5: with optimizations enabled and no bounding-box hierarchy, restore()
\* on a non-empty stack applies Rule A if and only if the innermost open
\* scope is a SAVE with flags MatrixClip and no command between its header
\* and the tail is a DRAW_* or a SAVE_LAYER.
C5_RuleAIff ==
    [][(/\ RestoreStep
        /\ "kDisableRecordOptimizations_RecordingFlag" \notin fRecordFlags
        /\ ~fBoundingHierarchy)
       => (lastOpt' = "collapse_save_clip_restore" <=> RuleACondition)]_vars

\* C6: when Rule A fires the writer is rewound exactly to the header of the
\* SAVE that opened the innermost open scope, one stack frame is popped, and
\* what lies before that header is unchanged, also when the scope holds a
\* region-expanding clip.
C6_RuleARewindsToInnermostSave ==
    [][(RestoreStep /\ lastOpt' = "collapse_save_clip_restore")
       => /\ OpenScopes # << >>
          /\ fWriter' = rewindToOffset(fWriter, Top(OpenScopes).offset)
          /\ bytesWritten(fWriter') = Top(OpenScopes).offset
          /\ fRestoreOffsetStack' = Pop(fRestoreOffsetStack)]_vars

-----------------------------------------------------------------------------
\* S1: save(MatrixClip); translate(1,2); restore()

S1Ran ==
    /\ status = "ok"
    /\ LastCalls(<< "save", "translate", "restore" >>)
    /\ Nth(3).flags = kMatrixClip_SaveFlag

\* the writer's length when the first of the last three calls was made
ThreeCallsStart == LenBefore(hist, Len(hist) - 2)

\* C7 as stated: save(MatrixClip); translate(1,2); restore() leaves of the
\* three calls a single TRANSLATE command, no SAVE and no RESTORE.
C7_S1LeavesOneTranslate ==
    S1Ran =>
        LET tail == ParseFrom(fWriter, ThreeCallsStart, << >>)
        IN tail.ok /\ OpsOf(tail.cmds) = << TRANSLATE >>

\* C7 amended: save(MatrixClip); translate(1,2); restore() leaves nothing of
\* the three calls: Rule A rewinds the writer to where the SAVE began, so
\* the stream holds no SAVE, no TRANSLATE and no RESTORE of theirs.
C7_S1LeavesNothing ==
    S1Ran =>
        /\ lastOpt = "collapse_save_clip_restore"
        /\ bytesWritten(fWriter) = ThreeCallsStart
        /\ ParseFrom(fWriter, ThreeCallsStart, << >>).cmds = << >>

C7_Witness ==
    /\ S1Ran
    /\ Len(hist) = 4
    /\ OpsOf(Stream(fWriter).cmds) = << SAVE >>

-----------------------------------------------------------------------------
\* Rule B

RuleBProcs == {"remove_save_layer1", "remove_save_layer2"}

\* the commands from the innermost open scope's header to the tail, NOOPs
\* aside, are one of the two patterns and nothing else
RuleBPatternAtTail ==
    /\ OpenScopes # << >>
    /\ Top(OpenScopes).call = "saveLayer"
    /\ LET body == ParseFrom(fWriter, Top(OpenScopes).offset, << >>)
           ops == OpsOf(SelectSeq(body.cmds, NotNoop))
       IN /\ body.ok
          /\ \/ /\ Len(ops) = 2
                /\ ops[1] = SAVE_LAYER
                /\ IsDrawBitmapFlavor(ops[2])
             \/ /\ Len(ops) = 5
                /\ ops[1] = SAVE_LAYER
                /\ ops[2] = SAVE
                /\ ops[3] = CLIP_RECT
                /\ IsDrawBitmapFlavor(ops[4])
                /\ ops[5] = RESTORE

\* C8: Rule B fires only when its pattern runs to the end of the stream: a
\* saveLayer and bitmap draw followed by any further command are not folded
\* by restore().
C8_RuleBOnlyAtTail ==
    [][(RestoreStep /\ lastOpt' \in RuleBProcs) => RuleBPatternAtTail]_vars

\* C9: when Rule B's pattern matches and the SAVE_LAYER carries paint index
\* 0, restore() turns the SAVE_LAYER header into NOOP and changes nothing
\* else: the draw's paint slot is as it was and no RESTORE is appended.
C9_NullLayerPaintBecomesNoop ==
    [][(/\ RestoreStep
        /\ RuleBPatternAtTail
        /\ ~Top(OpenScopes).bounds
        /\ Top(OpenScopes).paint.null)
       => /\ lastOpt' \in RuleBProcs
          /\ fWriter' = write32At(fWriter, Top(OpenScopes).offset,
                                  PACK_8_24(NOOP, kSaveLayerNoBoundsSize))
          /\ fRestoreOffsetStack' = Pop(fRestoreOffsetStack)]_vars

\* S3 has run: the layer is a NOOP, the draw keeps paint index 0
C9_Witness ==
    /\ status = "ok"
    /\ LastCalls(<< "saveLayer", "drawBitmap", "restore" >>)
    /\ Nth(3).paint.null /\ ~Nth(3).bounds /\ Nth(2).paint.null
    /\ lastOpt = "remove_save_layer1"
    /\ LET tail == ParseFrom(fWriter, ThreeCallsStart, << >>)
       IN /\ OpsOf(tail.cmds) = << NOOP, DRAW_BITMAP >>
          /\ read32At(fWriter, tail.cmds[2].offset + kUInt32Size) = 0

-----------------------------------------------------------------------------
\* S4: saveLayer(None, P_layer); drawBitmap(B, 0, 0, P_draw); restore()

S4Ran ==
    /\ status = "ok"
    /\ LastCalls(<< "saveLayer", "drawBitmap", "restore" >>)
    /\ Nth(3).paint = P_layer /\ ~Nth(3).bounds
    /\ Nth(2).paint = P_draw

\* the paint the draw command at offset names
PaintAt(offset) == fPaints[read32At(fWriter, offset + kUInt32Size)]

\* C10 as stated: with P_layer #80FFFFFF and P_draw #FFFF0000 the three
\* calls leave a NOOP and a DRAW_BITMAP whose paint has color #80FF0000,
\* and no RESTORE.
C10_S4Folds ==
    S4Ran =>
        LET tail == ParseFrom(fWriter, ThreeCallsStart, << >>)
        IN /\ OpsOf(tail.cmds) = << NOOP, DRAW_BITMAP >>
           /\ PaintAt(tail.cmds[2].offset).color = Color(128, Rgb.red)

\* C10 amended: with P_layer #80FFFFFF and P_draw #FFFF0000 nothing is
\* folded, the draw's RGB differing from the layer's: the SAVE_LAYER stays,
\* the DRAW_BITMAP keeps P_draw and a RESTORE is emitted.
C10_S4DoesNotFold ==
    S4Ran =>
        LET tail == ParseFrom(fWriter, ThreeCallsStart, << >>)
        IN /\ lastOpt = "recordRestore"
           /\ OpsOf(tail.cmds) = << SAVE_LAYER, DRAW_BITMAP, RESTORE >>
           /\ PaintAt(tail.cmds[2].offset) = P_draw
           /\ PaintAt(tail.cmds[1].offset + kUInt32Size) = P_layer

C10_Witness ==
    /\ S4Ran
    /\ Len(hist) = 4
    /\ OpsOf(Stream(fWriter).cmds) = << SAVE, SAVE_LAYER, DRAW_BITMAP, RESTORE >>

-----------------------------------------------------------------------------
\* Rule B with two paints

\* the bitmap draw of the pattern at the tail
DrawAtTail ==
    LET cmds == SelectSeq(ParseFrom(fWriter, Top(OpenScopes).offset, << >>).cmds, NotNoop)
    IN IF Len(cmds) = 2 THEN cmds[2] ELSE cmds[4]

\* the pattern is at the tail, the layer has no bounds, and the layer and
\* the draw both name a paint
TwoPaintsAtTail ==
    /\ RuleBPatternAtTail
    /\ ~Top(OpenScopes).bounds
    /\ ~Top(OpenScopes).paint.null
    /\ read32At(fWriter, DrawAtTail.offset + kUInt32Size) # 0

LayerPaintAtTail == Top(OpenScopes).paint

DrawPaintAtTail == PaintAt(DrawAtTail.offset)

\* restore() folds the layer's alpha into the draw's paint: the layer header
\* becomes NOOP, the draw's paint slot names the draw paint with the layer's
\* alpha, nothing is appended
FoldsLayerIntoDraw ==
    /\ lastOpt' \in RuleBProcs
    /\ fRestoreOffsetStack' = Pop(fRestoreOffsetStack)
    /\ LET slot == read32At(fWriter', DrawAtTail.offset + kUInt32Size)
       IN /\ slot \in 1..Len(fPaints')
          /\ fPaints'[slot] = [DrawPaintAtTail EXCEPT
                                  !.color = Color(LayerPaintAtTail.color.a,
                                                  DrawPaintAtTail.color.rgb)]
          /\ fWriter' = write32At(
                            write32At(fWriter, Top(OpenScopes).offset,
                                      PACK_8_24(NOOP, kSaveLayerNoBoundsSize)),
                            DrawAtTail.offset + kUInt32Size, slot)

\* C11 as stated: when Rule B's pattern matches with both paint indices
\* non-zero, the layer paint simple and the draw paint's RGB equal to the
\* layer paint's RGB, restore() folds.
C11_FoldsOnEqualRgb ==
    [][(/\ RestoreStep
        /\ TwoPaintsAtTail
        /\ LayerPaintAtTail.effects = 0
        /\ DrawPaintAtTail.color.rgb = LayerPaintAtTail.color.rgb)
       => FoldsLayerIntoDraw]_vars

\* C11 amended: when Rule B's pattern matches with both paint indices
\* non-zero, the layer paint simple, the draw paint's RGB equal to the layer
\* paint's RGB and the draw paint opaque (alpha 255), restore() folds.
C11_FoldsOnEqualRgbOpaqueDraw ==
    [][(/\ RestoreStep
        /\ TwoPaintsAtTail
        /\ LayerPaintAtTail.effects = 0
        /\ DrawPaintAtTail.color = Color(255, LayerPaintAtTail.color.rgb))
       => FoldsLayerIntoDraw]_vars

\* the layer's alpha 128 has been folded into the opaque red draw
C11_Witness ==
    /\ status = "ok"
    /\ LastCalls(<< "saveLayer", "drawBitmap", "restore" >>)
    /\ Nth(3).paint = P_layerRed /\ Nth(2).paint = P_draw
    /\ lastOpt = "remove_save_layer1"
    /\ LET tail == ParseFrom(fWriter, ThreeCallsStart, << >>)
       IN /\ OpsOf(tail.cmds) = << NOOP, DRAW_BITMAP >>
          /\ PaintAt(tail.cmds[2].offset).color = Color(128, Rgb.red)

-----------------------------------------------------------------------------
\* Recording with the optimizations disabled

ConstructedDisabled ==
    "kDisableRecordOptimizations_RecordingFlag" \in fRecordFlags

NoNoop(w) == \A i \in 1..Len(Stream(w).cmds) : Stream(w).cmds[i].op # NOOP

\* C12: a recorder constructed with DisableRecordOptimizations fires neither
\* Rule A nor Rule B: every restore() on a non-empty stack appends exactly
\* one RESTORE header, the stream never holds a NOOP, and the writer never
\* gets shorter.
C12_DisabledNeverFires ==
    [][(ConstructedDisabled /\ status' = "ok")
       => /\ bytesWritten(fWriter') >= bytesWritten(fWriter)
          /\ Stream(fWriter').ok /\ NoNoop(fWriter')
          /\ RestoreStep =>
               /\ lastOpt' = "recordRestore"
               /\ Len(fWriter') = Len(fWriter) + 1
               /\ fWriter'[Len(fWriter')] = PACK_8_24(RESTORE, kUInt32Size)
               /\ OpsOf(Stream(fWriter').cmds)
                     = OpsOf(Stream(fWriter).cmds) \o << RESTORE >>]_vars

\* the pattern Rule B would take has been restored and is all there
C12_Witness ==
    /\ ConstructedDisabled
    /\ status = "ok"
    /\ LastCalls(<< "saveLayer", "drawBitmap", "restore" >>)
    /\ Nth(3).paint = NullPaint
    /\ lastOpt = "recordRestore"
    /\ OpsOf(Stream(fWriter).cmds)
          = << SAVE, SAVE_LAYER, DRAW_BITMAP, RESTORE >>

-----------------------------------------------------------------------------
\* The order of the commands

\* the opcodes a call can append to the stream
CallEmits(call) ==
    CASE call \in {"beginRecording", "save"} -> {SAVE}
      [] call = "saveLayer"                  -> {SAVE_LAYER}
      [] call \in {"restore", "endRecording"} -> {RESTORE}
      [] call = "translate"                  -> {TRANSLATE}
      [] call = "clipRect"                   -> {CLIP_RECT}
      [] call = "clipPath"                   -> {CLIP_PATH}
      [] call = "clear"                      -> {DRAW_CLEAR}
      [] call = "drawRect"                   -> {DRAW_RECT}
      [] call = "drawBitmap"                 -> {DRAW_BITMAP}
      [] call = "drawPicture"                -> {DRAW_PICTURE}
      [] OTHER                               -> {}

\* the first k commands of old are the first k of new, each at the offset
\* and of the size it had, with its opcode or NOOP in its place
KeptInPlace(old, new, k) ==
    /\ k <= Len(new)
    /\ \A i \in 1..k :
          /\ new[i].offset = old[i].offset
          /\ new[i].size = old[i].size
          /\ new[i].op \in {old[i].op, NOOP}

\* C13: the stream keeps the order of the API calls. Each call leaves the
\* commands that survive it where they were (at most rewritten in place),
\* takes commands away only from the end and only in restore(), and puts
\* its own commands after all that survive, so of two surviving commands
\* the one of the earlier call is at the lower offset.
C13_OrderOfCallsKept ==
    [][(status = "ok" /\ status' = "ok" /\ Len(hist') = Len(hist) + 1)
       => \E old \in {Stream(fWriter)}, new \in {Stream(fWriter')} :
             /\ old.ok /\ new.ok
             /\ \E k \in 0..Len(old.cmds) :
                   /\ KeptInPlace(old.cmds, new.cmds, k)
                   /\ \A i \in (k + 1)..Len(new.cmds) :
                         new.cmds[i].op \in CallEmits(Last(hist').call)
                   /\ k < Len(old.cmds)
                         => Last(hist').call \in {"restore", "endRecording"}]_vars

\* a layer has been rewritten in place, and a later call's command follows
\* the draw that was inside it
C13_Witness ==
    /\ status = "ok"
    /\ LastCalls(<< "saveLayer", "drawBitmap", "restore", "translate" >>)
    /\ OpsOf(Stream(fWriter).cmds) = << SAVE, NOOP, DRAW_BITMAP, TRANSLATE >>

-----------------------------------------------------------------------------
\* The header codec

\* has the header written by the i-th call been blanked
Converted(h, i) ==
    \E j \in 1..Len(h) :
        h[j].call = "convert_command_to_noop" /\ h[j].offset = h[i].offset

\* a step that blanks the header at an offset
ConvertStep(offset) ==
    /\ Len(hist') = Len(hist) + 1
    /\ Last(hist').call = "convert_command_to_noop"
    /\ Last(hist').offset = offset

\* C14: convert_command_to_noop at the offset of a header changes the
\* opcode byte of that word and nothing else: afterwards the header reads
\* as (NOOP, the size it had), also when the size is in the word after it,
\* and every other word of the stream is as it was.
C14_ConvertKeepsSize ==
    [][\A i \in Headers : ConvertStep(hist[i].offset) =>
          /\ peek_op_and_size(fWriter', hist[i].offset)
                = [st |-> "ok", op |-> NOOP, size |-> hist[i].size]
          /\ peek_op_and_size(fWriter, hist[i].offset).size = hist[i].size
          /\ UnpackSize(read32At(fWriter', hist[i].offset))
                = UnpackSize(read32At(fWriter, hist[i].offset))
          /\ Len(fWriter') = Len(fWriter)
          /\ \A k \in 1..Len(fWriter) :
                k # hist[i].offset \div kUInt32Size + 1 => fWriter'[k] = fWriter[k]]_vars

\* a header with its size in the overflow word has been blanked, after
\* another header
C14_Witness ==
    /\ phase = "codec"
    /\ Len(hist) = 3
    /\ hist[2].call = "addDraw" /\ hist[2].drawType = SAVE_LAYER
    /\ hist[2].size = MASK_24 + 1
    /\ hist[3].call = "convert_command_to_noop"
    /\ hist[3].offset = hist[2].offset
    /\ hist[2].offset > 0
    /\ peek_op_and_size(fWriter, hist[2].offset).op = NOOP
    /\ peek_op_and_size(fWriter, hist[2].offset).size = MASK_24 + 1

\* the words the header of the i-th call takes in the stream
HeaderWords(h, i) == (h[i].len - h[i].offset) \div kUInt32Size

\* C15: the header codec round-trips. The header written for (op, size)
\* reads back as (op, size) at the offset it was written at, for the sizes
\* 2^24-2, 2^24-1 and 2^24 too; it is one word when size < 2^24-1 and else
\* the marker 2^24-1 with the size in a word of its own; and getPaintOffset
\* adds 4 bytes for exactly the headers of two words.
C15_HeaderRoundTrip ==
    phase = "codec" =>
        \A i \in Headers :
            /\ ~Converted(hist, i) =>
                  peek_op_and_size(fWriter, hist[i].offset)
                     = [st |-> "ok", op |-> hist[i].drawType, size |-> hist[i].size]
            /\ HeaderWords(hist, i) = IF hist[i].size < MASK_24 THEN 1 ELSE 2
            /\ HeaderWords(hist, i) = 2 =>
                  /\ UnpackSize(read32At(fWriter, hist[i].offset)) = MASK_24
                  /\ read32At(fWriter, hist[i].offset + kUInt32Size) = hist[i].size
            /\ hist[i].drawType # SAVE_LAYER =>
                  getPaintOffset(hist[i].drawType, hist[i].size)
                     = gPaintOffsets[hist[i].drawType] * kUInt32Size
                          + (HeaderWords(hist, i) - 1) * kUInt32Size

\* headers of the three sizes around the marker are in the stream
C15_Witness ==
    /\ phase = "codec"
    /\ Len(hist) = 2
    /\ hist[1].drawType = DRAW_BITMAP /\ hist[1].size = MASK_24
    /\ hist[2].drawType = DRAW_BITMAP /\ hist[2].size = MASK_24 - 1
    /\ hist[2].offset = 2 * kUInt32Size
    /\ bytesWritten(fWriter) = 3 * kUInt32Size

-----------------------------------------------------------------------------
\* S5: save(); clipRect(R1, Intersect); clipRect(R2, Union); restore()

S5Ran ==
    /\ status = "ok"
    /\ LastCalls(<< "save", "clipRect", "clipRect", "restore" >>)
    /\ Nth(3).op = "Intersect"
    /\ Nth(2).op = "Union"

\* C16: after save(); clipRect(R1, Intersect); clipRect(R2, Union);
\* restore() the stream ends with the two CLIP_RECT commands and the
\* RESTORE; the placeholder word of the first CLIP_RECT is 0 and that of
\* the second is the offset of the RESTORE.
C16_S5Placeholders ==
    S5Ran =>
        /\ Stream(fWriter).ok
        /\ Len(Stream(fWriter).cmds) >= 3
        /\ LET cmds  == Stream(fWriter).cmds
               n     == Len(cmds)
           IN /\ cmds[n - 2].op = CLIP_RECT /\ HasPlaceholder(cmds[n - 2])
              /\ cmds[n - 1].op = CLIP_RECT /\ HasPlaceholder(cmds[n - 1])
              /\ cmds[n].op = RESTORE
              /\ PlaceholderOf(fWriter, cmds[n - 2]) = 0
              /\ PlaceholderOf(fWriter, cmds[n - 1]) = cmds[n].offset

-----------------------------------------------------------------------------
\* Nested pictures

\* the n-th call drew picture
DrewPicture(h, n, picture) ==
    h[n].call = "drawPicture" /\ h[n].picture = picture

\* the pictures drawn by the first n calls, each once, in the order of
\* their first drawPicture
RECURSIVE FirstDrawn(_, _)
FirstDrawn(h, n) ==
    IF n = 0 THEN << >>
    ELSE LET prev == FirstDrawn(h, n - 1)
         IN IF h[n].call = "drawPicture" /\ find(prev, h[n].picture) < 0
            THEN Append(prev, h[n].picture)
            ELSE prev

\* a step that is a drawPicture call
DrawPictureStep ==
    /\ status = "ok" /\ status' = "ok"
    /\ Len(hist') = Len(hist) + 1
    /\ Last(hist').call = "drawPicture"

\* C17: drawPicture records DRAW_PICTURE with a 1-based index: the place of
\* the picture among the distinct pictures drawn so far, in the order they
\* were first drawn. A picture drawn again gets the index of its first
\* drawPicture whatever was recorded in between, and distinct pictures get
\* 1, 2, 3, ...
C17_PictureIndexByFirstDraw ==
    [][DrawPictureStep =>
          /\ Len(fWriter') = Len(fWriter) + 2
          /\ SubSeq(fWriter', 1, Len(fWriter)) = fWriter
          /\ fWriter'[Len(fWriter) + 1] = PACK_8_24(DRAW_PICTURE, 2 * kUInt32Size)
          /\ fWriter'[Len(fWriter) + 2]
                = find(FirstDrawn(hist', Len(hist')), Last(hist').picture) + 1
          /\ fPictureRefs' = FirstDrawn(hist', Len(hist'))]_vars

\* a picture has been drawn again after another one and a draw of a bitmap
C17_Witness ==
    /\ status = "ok"
    /\ LastCalls(<< "drawPicture", "drawPicture", "drawBitmap", "drawPicture" >>)
    /\ Nth(4).picture = "pictureB"
    /\ Nth(3).picture = "pictureA"
    /\ Nth(1).picture = "pictureB"
    /\ fPictureRefs = << "pictureB", "pictureA" >>
    /\ fWriter[Len(fWriter)] = 1

\* was picture drawn by one of the calls
Drawn(picture) == \E n \in 1..Len(hist) : DrewPicture(hist, n, picture)

\* C18: the recorder holds one reference to each picture it has drawn, and
\* none to the others, from the first drawPicture of the picture to the
\* recorder's destruction, whatever is recorded or rewound in between;
\* once the recorder is destroyed every picture has the count it had
\* before the recorder was made.
C18_OneReferencePerPicture ==
    status = "ok" =>
        \A picture \in Pictures :
            pictureRefCnt[picture]
               = 1 + (IF phase # "destroyed" /\ Drawn(picture) THEN 1 ELSE 0)

\* the recorder has been destroyed after drawing a picture twice and
\* collapsing a scope
C18_Witness ==
    /\ phase = "destroyed"
    /\ LastCalls(<< "drawPicture", "drawPicture", "save", "restore" >>)
    /\ Nth(4).picture = "pictureA" /\ Nth(3).picture = "pictureA"
    /\ lastOpt = "collapse_save_clip_restore"
    /\ OpsOf(Stream(fWriter).cmds) = << SAVE, DRAW_PICTURE, DRAW_PICTURE >>
    /\ pictureRefCnt["pictureA"] = 1

-----------------------------------------------------------------------------
\* The indices in the stream, and the dictionaries

\* where the paint index of command c is, 0 when c has none
PaintSlot(c) ==
    IF c.op = SAVE_LAYER \/ (c.op \in UNUSED..LAST_DRAWTYPE_ENUM /\ gPaintOffsets[c.op] # 0)
    THEN getPaintOffset(c.op, c.size)
    ELSE 0

IsPrefix(a, b) == Len(a) <= Len(b) /\ SubSeq(b, 1, Len(a)) = a

NoDuplicates(dict) ==
    \A i, j \in 1..Len(dict) : dict[i] = dict[j] => i = j

InDict(dict, value) == \E i \in 1..Len(dict) : dict[i] = value

\* a step that is a drawBitmap call
DrawBitmapStep ==
    /\ status = "ok" /\ status' = "ok"
    /\ Len(hist') = Len(hist) + 1
    /\ Last(hist').call = "drawBitmap"

\* a restore() in which Rule B folded the layer's paint and the draw's
FoldStep ==
    /\ RestoreStep /\ TwoPaintsAtTail
    /\ lastOpt' \in RuleBProcs

\* the paint Rule B makes of the two at the tail
MergedAtTail ==
    [DrawPaintAtTail EXCEPT !.color = Color(LayerPaintAtTail.color.a, @.rgb)]

\* C20: the dictionaries are idempotent. A step leaves every entry at its
\* index and appends only values that were not there, so no value is
\* there twice; drawBitmap with a paint records the index of that paint,
\* and adds no entry when the paint was there; a fold of Rule B records the
\* index of the merged paint, and adds no entry when that paint was there.
C20_DictionariesIdempotent ==
    [][status' = "ok" =>
          /\ IsPrefix(fPaints, fPaints') /\ NoDuplicates(fPaints')
          /\ IsPrefix(fBitmapHeap, fBitmapHeap') /\ NoDuplicates(fBitmapHeap')
          /\ (DrawBitmapStep /\ ~Last(hist').paint.null) =>
                /\ read32At(fWriter', bytesWritten(fWriter) + kUInt32Size)
                      = IndexIn(fPaints', Last(hist').paint)
                /\ IndexIn(fPaints', Last(hist').paint) # 0
                /\ InDict(fPaints, Last(hist').paint) => fPaints' = fPaints
                /\ ~InDict(fPaints, Last(hist').paint)
                      => fPaints' = Append(fPaints, Last(hist').paint)
          /\ FoldStep =>
                /\ read32At(fWriter', DrawAtTail.offset + kUInt32Size)
                      = IndexIn(fPaints', MergedAtTail)
                /\ IndexIn(fPaints', MergedAtTail) # 0
                /\ InDict(fPaints, MergedAtTail) => fPaints' = fPaints
                /\ ~InDict(fPaints, MergedAtTail)
                      => fPaints' = Append(fPaints, MergedAtTail)]_vars

\* a paint has been drawn with twice, and Rule B has folded a pair whose
\* merged paint was there
C20_Witness ==
    /\ status = "ok"
    /\ LastCalls(<< "drawBitmap", "saveLayer", "drawBitmap", "restore" >>)
    /\ Nth(4).paint = P_draw /\ Nth(2).paint = P_draw
    /\ lastOpt \in RuleBProcs
    /\ fPaints = << P_draw, P_layerRed >>
    /\ OpsOf(Stream(fWriter).cmds) = << SAVE, DRAW_BITMAP, NOOP, DRAW_BITMAP >>
    /\ read32At(fWriter, Stream(fWriter).cmds[2].offset + kUInt32Size) = 1
    /\ read32At(fWriter, Stream(fWriter).cmds[4].offset + kUInt32Size) = 2

-----------------------------------------------------------------------------
\* restore() with no scope open

\* a step that is a restore() call on the empty stack
UnderflowStep ==
    /\ status = "ok" /\ status' = "ok"
    /\ Len(hist') = Len(hist) + 1
    /\ Last(hist').call = "restore"
    /\ fRestoreOffsetStack = << >>

\* C21: restore() on the empty restore-offset stack is ignored: no RESTORE
\* is written, no optimization runs, and the stream, the stack, the first
\* saved layer index and the dictionaries are as they were.
C21_UnderflowIgnored ==
    [][UnderflowStep =>
          /\ fWriter' = fWriter
          /\ fRestoreOffsetStack' = << >>
          /\ fFirstSavedLayerIndex' = fFirstSavedLayerIndex
          /\ fPaints' = fPaints
          /\ saveCount' = saveCount
          /\ lastOpt' = "underflow"]_vars

\* a restore() too many has been made after a draw
C21_Witness ==
    /\ status = "ok"
    /\ LastCalls(<< "drawRect", "restore", "restore" >>)
    /\ lastOpt = "underflow"
    /\ fRestoreOffsetStack = << >>
    /\ OpsOf(Stream(fWriter).cmds) = << SAVE, DRAW_RECT, RESTORE >>

-----------------------------------------------------------------------------
\* Recording into a bounding box hierarchy

\* C22: with a bounding box hierarchy attached Rule A is skipped: no
\* restore() collapses a scope, and the restore() of a scope opened by
\* save() leaves the SAVE header and the stream as they are but for the
\* placeholders it fills, and appends a RESTORE. Rule B is still tried: a
\* layer without bounds and without a paint around one bitmap draw is
\* removed.
C22_RuleASkippedWithHierarchy ==
    [][(fBoundingHierarchy /\ RestoreStep) =>
          /\ lastOpt' # "collapse_save_clip_restore"
          /\ Top(OpenScopes).call \in {"save", "beginRecording"} =>
                /\ lastOpt' = "recordRestore"
                /\ Len(fWriter') = Len(fWriter) + 1
                /\ fWriter'[Len(fWriter')] = PACK_8_24(RESTORE, kUInt32Size)
                /\ read32At(fWriter', Top(OpenScopes).offset) = PACK_8_24(SAVE, kSaveSize)
                /\ OpsOf(Stream(fWriter').cmds)
                      = OpsOf(Stream(fWriter).cmds) \o << RESTORE >>
          /\ (RuleBPatternAtTail /\ Top(OpenScopes).paint.null) =>
                /\ lastOpt' \in RuleBProcs
                /\ Len(fWriter') = Len(fWriter)
                /\ UnpackOp(read32At(fWriter', Top(OpenScopes).offset)) = NOOP]_vars

\* a scope of save(MatrixClip) without a draw has been restored and is
\* all there
C22_Witness ==
    /\ fBoundingHierarchy
    /\ status = "ok"
    /\ LastCalls(<< "save", "translate", "restore" >>)
    /\ Nth(3).flags = kMatrixClip_SaveFlag
    /\ lastOpt = "recordRestore"
    /\ OpsOf(Stream(fWriter).cmds) = << SAVE, SAVE, TRANSLATE, RESTORE >>

\* Rule B has fired with the hierarchy attached
C22_RuleBFired ==
    /\ fBoundingHierarchy
    /\ status = "ok"
    /\ LastCalls(<< "saveLayer", "drawBitmap", "restore" >>)
    /\ lastOpt = "remove_save_layer1"
    /\ OpsOf(Stream(fWriter).cmds) = << SAVE, NOOP, DRAW_BITMAP >>

-----------------------------------------------------------------------------
\* Rule B: the layer's paint alone, the draw's alpha, the layer's bounds

\* restore() records a RESTORE and changes nothing else
OnlyRecordsRestore ==
    /\ lastOpt' = "recordRestore"
    /\ fWriter' = Append(fWriter, PACK_8_24(RESTORE, kUInt32Size))
    /\ fPaints' = fPaints
    /\ fRestoreOffsetStack' = Pop(fRestoreOffsetStack)

\* C23: when Rule B's pattern matches, the layer names a paint and the draw
\* names none, restore() writes the layer's paint index into the draw's
\* paint slot, turns the SAVE_LAYER header into NOOP, appends no RESTORE
\* and adds nothing to the paint dictionary.
C23_LayerPaintMovesIntoDraw ==
    [][(/\ RestoreStep
        /\ RuleBPatternAtTail
        /\ ~Top(OpenScopes).bounds
        /\ ~Top(OpenScopes).paint.null
        /\ read32At(fWriter, DrawAtTail.offset + kUInt32Size) = 0)
       => /\ lastOpt' \in RuleBProcs
          /\ read32At(fWriter, Top(OpenScopes).offset + 2 * kUInt32Size)
                = IndexIn(fPaints, Top(OpenScopes).paint)
          /\ fWriter' = write32At(
                            write32At(fWriter, Top(OpenScopes).offset,
                                      PACK_8_24(NOOP, kSaveLayerNoBoundsSize)),
                            DrawAtTail.offset + kUInt32Size,
                            IndexIn(fPaints, Top(OpenScopes).paint))
          /\ fPaints' = fPaints
          /\ fRestoreOffsetStack' = Pop(fRestoreOffsetStack)]_vars

\* the draw without a paint has got the layer's
C23_Witness ==
    /\ status = "ok"
    /\ LastCalls(<< "saveLayer", "drawBitmap", "restore" >>)
    /\ Nth(3).paint = P_layer /\ ~Nth(3).bounds /\ Nth(2).paint.null
    /\ lastOpt = "remove_save_layer1"
    /\ fPaints = << P_layer >>
    /\ OpsOf(Stream(fWriter).cmds) = << SAVE, NOOP, DRAW_BITMAP >>
    /\ read32At(fWriter, Stream(fWriter).cmds[3].offset + kUInt32Size) = 1

\* C24: when the layer and the draw both name a paint and the draw paint's
\* alpha is not 255, Rule B does not fold them: the stream is left as it
\* was and a RESTORE is appended.
C24_NoFoldUnlessDrawOpaque ==
    [][(/\ RestoreStep
        /\ TwoPaintsAtTail
        /\ DrawPaintAtTail.color.a # 255)
       => OnlyRecordsRestore]_vars

\* a layer and a draw of its colour at alpha 64 are both still there
C24_Witness ==
    /\ status = "ok"
    /\ LastCalls(<< "saveLayer", "drawBitmap", "restore" >>)
    /\ Nth(3).paint = P_layerRed /\ ~Nth(3).bounds /\ Nth(2).paint = P_drawHalf
    /\ lastOpt = "recordRestore"
    /\ fPaints = << P_layerRed, P_drawHalf >>
    /\ OpsOf(Stream(fWriter).cmds) = << SAVE, SAVE_LAYER, DRAW_BITMAP, RESTORE >>

\* the innermost open scope is a layer with bounds around one bitmap draw
BoundedLayerAroundDraw ==
    /\ OpenScopes # << >>
    /\ Top(OpenScopes).call = "saveLayer"
    /\ Top(OpenScopes).bounds
    /\ LET body == ParseFrom(fWriter, Top(OpenScopes).offset, << >>)
       IN /\ body.ok
          /\ Len(body.cmds) = 2
          /\ body.cmds[1].op = SAVE_LAYER
          /\ IsDrawBitmapFlavor(body.cmds[2].op)

\* C25: Rule B never fires for a layer recorded with bounds: the restore()
\* of saveLayer(bounds, P); drawBitmap(...) leaves the SAVE_LAYER header
\* and the draw's paint slot as they were and appends a RESTORE, whatever
\* the two paints are.
C25_BoundedLayerNotFolded ==
    [][(RestoreStep /\ Top(OpenScopes).call = "saveLayer" /\ Top(OpenScopes).bounds)
       => /\ lastOpt' \notin RuleBProcs
          /\ BoundedLayerAroundDraw => OnlyRecordsRestore]_vars

\* a layer with bounds and no paint around a draw is still there
C25_Witness ==
    /\ status = "ok"
    /\ LastCalls(<< "saveLayer", "drawBitmap", "restore" >>)
    /\ Nth(3).bounds /\ Nth(3).paint.null /\ Nth(2).paint = P_draw
    /\ lastOpt = "recordRestore"
    /\ OpsOf(Stream(fWriter).cmds) = << SAVE, SAVE_LAYER, DRAW_BITMAP, RESTORE >>
    /\ Stream(fWriter).cmds[2].size = kSaveLayerWithBoundsSize

-----------------------------------------------------------------------------
\* Rule B: the nested pattern

\* the commands of the innermost open scope, NOOPs aside
TailCmds ==
    SelectSeq(ParseFrom(fWriter, Top(OpenScopes).offset, << >>).cmds, NotNoop)

\* a layer without bounds holds SAVE, CLIP_RECT, a bitmap draw and RESTORE,
\* and nothing else
NestedPatternAtTail ==
    /\ RuleBPatternAtTail
    /\ ~Top(OpenScopes).bounds
    /\ Len(TailCmds) = 5

\* the three cases of the paints, as restore() settles them
MergesLayerIntoDraw ==
    IF Top(OpenScopes).paint.null
    THEN /\ fWriter' = write32At(fWriter, Top(OpenScopes).offset,
                                 PACK_8_24(NOOP, kSaveLayerNoBoundsSize))
         /\ fPaints' = fPaints
    ELSE IF read32At(fWriter, DrawAtTail.offset + kUInt32Size) = 0
    THEN /\ fWriter' = write32At(
                           write32At(fWriter, Top(OpenScopes).offset,
                                     PACK_8_24(NOOP, kSaveLayerNoBoundsSize)),
                           DrawAtTail.offset + kUInt32Size,
                           IndexIn(fPaints, Top(OpenScopes).paint))
         /\ fPaints' = fPaints
    ELSE FoldsLayerIntoDraw

\* C26: Rule B takes the nested pattern SAVE_LAYER (no bounds), SAVE,
\* CLIP_RECT, bitmap draw, RESTORE at the end of the stream. The outer
\* restore() merges the layer's paint into the draw as in the flat pattern
\* (no layer paint; no draw paint; both, the draw's colour being the
\* layer's made opaque), the SAVE_LAYER becomes NOOP, the inner SAVE,
\* CLIP_RECT and RESTORE stay with the CLIP_RECT's placeholder the offset
\* of the inner RESTORE, and no outer RESTORE is appended.
C26_NestedPatternMerged ==
    [][(/\ RestoreStep
        /\ NestedPatternAtTail
        /\ \/ Top(OpenScopes).paint.null
           \/ read32At(fWriter, DrawAtTail.offset + kUInt32Size) = 0
           \/ /\ LayerPaintAtTail.effects = 0
              /\ DrawPaintAtTail.color = Color(255, LayerPaintAtTail.color.rgb))
       => /\ lastOpt' = "remove_save_layer2"
          /\ MergesLayerIntoDraw
          /\ fRestoreOffsetStack' = Pop(fRestoreOffsetStack)
          /\ Len(fWriter') = Len(fWriter)
          /\ OpsOf(ParseFrom(fWriter', Top(OpenScopes).offset, << >>).cmds)
                = << NOOP, SAVE, CLIP_RECT, TailCmds[4].op, RESTORE >>
          /\ PlaceholderOf(fWriter', TailCmds[3]) = TailCmds[5].offset]_vars

\* the nested pattern has been folded: the layer's alpha is in the paint
\* of the draw inside the scope
C26_Witness ==
    /\ status = "ok"
    /\ LastCalls(<< "saveLayer", "save", "clipRect", "drawBitmap", "restore", "restore" >>)
    /\ Nth(6).paint = P_layerRed /\ Nth(3).paint = P_draw
    /\ lastOpt = "remove_save_layer2"
    /\ OpsOf(Stream(fWriter).cmds)
          = << SAVE, NOOP, SAVE, CLIP_RECT, DRAW_BITMAP, RESTORE >>
    /\ PaintAt(Stream(fWriter).cmds[5].offset) = Paint(Color(128, Rgb.red), 0)
    /\ PlaceholderOf(fWriter, Stream(fWriter).cmds[4]) = Stream(fWriter).cmds[6].offset

-----------------------------------------------------------------------------
\* The placeholders of the clips

ExpandingOps == {"Union", "XOR", "ReverseDifference", "Replace"}

\* the offsets of the slots on the chain that starts at offset, first to
\* last; a chain that leaves the writer or does not end is cut there
RECURSIVE ChainFrom(_, _, _)
ChainFrom(w, offset, fuel) ==
    IF offset > 0 /\ InWriter(w, offset) /\ fuel > 0
    THEN << offset >> \o ChainFrom(w, read32At(w, offset), fuel - 1)
    ELSE << >>

\* the slots on the chain of the innermost scope
Chain == ChainFrom(fWriter, Top(fRestoreOffsetStack), Len(fWriter))

OnChain(offset) == \E i \in 1..Len(Chain) : Chain[i] = offset

\* a step that is a clip call with a scope open
ClipStep ==
    /\ status = "ok" /\ status' = "ok"
    /\ Len(hist') = Len(hist) + 1
    /\ Last(hist').call \in {"clipRect", "clipPath"}
    /\ fRestoreOffsetStack # << >>

\* the offset of the last word of the writer after the step
NewSlot == bytesWritten(fWriter') - kUInt32Size

\* C27: a clip recorded with a scope open puts its placeholder word last
\* and makes the offset of that word the top of the stack. With Union,
\* XOR, ReverseDifference or Replace every slot on the chain of the
\* innermost scope is overwritten with 0 and the new word is 0; with
\* Intersect or Difference no word written before is changed and the new
\* word is the value the top of the stack had.
C27_PlaceholderRecorded ==
    [][ClipStep =>
          /\ Len(fWriter') > Len(fWriter)
          /\ fRestoreOffsetStack' = SetTop(fRestoreOffsetStack, NewSlot)
          /\ IF Last(hist').op \in ExpandingOps
             THEN /\ read32At(fWriter', NewSlot) = 0
                  /\ \A k \in 1..Len(fWriter) :
                        fWriter'[k] = IF OnChain((k - 1) * kUInt32Size)
                                      THEN 0 ELSE fWriter[k]
             ELSE /\ read32At(fWriter', NewSlot) = Top(fRestoreOffsetStack)
                  /\ SubSeq(fWriter', 1, Len(fWriter)) = fWriter]_vars

\* a Replace clip after two Intersect clips has cleared both their slots
C27_Witness ==
    /\ status = "ok"
    /\ LastCalls(<< "save", "clipRect", "clipRect", "clipRect" >>)
    /\ Nth(3).op = "Intersect" /\ Nth(2).op = "Difference" /\ Nth(1).op = "Replace"
    /\ OpsOf(Stream(fWriter).cmds) = << SAVE, SAVE, CLIP_RECT, CLIP_RECT, CLIP_RECT >>
    /\ PlaceholderOf(fWriter, Stream(fWriter).cmds[3]) = 0
    /\ PlaceholderOf(fWriter, Stream(fWriter).cmds[4]) = 0
    /\ PlaceholderOf(fWriter, Stream(fWriter).cmds[5]) = 0
    /\ Top(fRestoreOffsetStack) = bytesWritten(fWriter) - kUInt32Size

-----------------------------------------------------------------------------
\* Back-patching at restore()

\* how many openers of cmds[1..i] are left without a RESTORE
DepthAt(cmds, i) == Unmatched(SubSeq(cmds, 1, i), 1, 0)

\* the index of the header that opened the innermost scope still open at
\* the end of cmds, 0 when the stream has none open
InnermostOpener(cmds) ==
    LET openers == { o \in 1..Len(cmds) :
                       /\ cmds[o].op \in {SAVE, SAVE_LAYER}
                       /\ DepthAt(cmds, o) = DepthAt(cmds, Len(cmds))
                       /\ \A j \in o..Len(cmds) : DepthAt(cmds, j) >= DepthAt(cmds, o) }
    IN IF openers = {} THEN 0 ELSE CHOOSE o \in openers : \A x \in openers : x <= o

\* the indices of the clips with a placeholder recorded in the innermost
\* open scope itself, not in a scope already closed inside it
ScopeClips(cmds) ==
    { j \in (InnermostOpener(cmds) + 1)..Len(cmds) :
        /\ cmds[j].op \in ClipOps /\ HasPlaceholder(cmds[j])
        /\ DepthAt(cmds, j) = DepthAt(cmds, Len(cmds)) }

\* the region op a clip command was recorded with, read from its params word
ClipOpOrdinal(w, c) == read32At(w, c.offset + c.size - 2 * kUInt32Size) % 16

ClipExpands(w, c) ==
    ClipOpOrdinal(w, c) \in { RegionOpOrdinal[op] : op \in ExpandingOps }

\* a restore() that found no rule to apply and recorded a RESTORE
RecordRestoreStep ==
    /\ RestoreStep
    /\ lastOpt' = "recordRestore"
    /\ Stream(fWriter).ok

\* C28 as stated: when restore() emits a RESTORE, every placeholder slot of
\* the scope being closed holds afterwards the offset of that RESTORE's
\* header, the writer's length just before the RESTORE was appended.
C28_AllSlotsPatched ==
    [][RecordRestoreStep =>
          \A j \in ScopeClips(Stream(fWriter).cmds) :
              PlaceholderOf(fWriter', Stream(fWriter).cmds[j]) = bytesWritten(fWriter)]_vars

\* C28: when restore() emits a RESTORE, the placeholder slots of the scope
\* being closed that were recorded from its last region-expanding clip on
\* (all of them when it has none) hold afterwards the offset of that
\* RESTORE's header; the slots recorded before that clip hold 0.
C28_ChainSlotsPatched ==
    [][RecordRestoreStep =>
          LET cmds == Stream(fWriter).cmds
          IN /\ Last(Stream(fWriter').cmds).op = RESTORE
             /\ Last(Stream(fWriter').cmds).offset = bytesWritten(fWriter)
             /\ \A j \in ScopeClips(cmds) :
                  PlaceholderOf(fWriter', cmds[j]) =
                     IF \E k \in ScopeClips(cmds) : k > j /\ ClipExpands(fWriter, cmds[k])
                     THEN 0 ELSE bytesWritten(fWriter)]_vars

\* a scope with an Intersect clip, a Union clip and a draw was closed by a
\* RESTORE: the first slot holds 0, the second the RESTORE's offset
C28_Witness ==
    /\ status = "ok"
    /\ LastCalls(<< "clipRect", "clipRect", "drawRect", "restore" >>)
    /\ Nth(4).op = "Intersect" /\ Nth(3).op = "Union"
    /\ lastOpt = "recordRestore"
    /\ LET cmds == Stream(fWriter).cmds
       IN /\ OpsOf(cmds) = << SAVE, CLIP_RECT, CLIP_RECT, DRAW_RECT, RESTORE >>
          /\ PlaceholderOf(fWriter, cmds[2]) = 0
          /\ PlaceholderOf(fWriter, cmds[3]) = cmds[5].offset

-----------------------------------------------------------------------------
\* Where the chain ends

\* the value the walk from the top of the stack ends at: [st, offset]
ChainEnd == BackUpToSave(fWriter, Top(fRestoreOffsetStack), Len(fWriter))

\* C29: in every state with a non-empty stack the walk from the top of the
\* stack through the placeholder slots ends at minus the offset of the SAVE
\* or SAVE_LAYER header that opened the innermost scope (0 for the initial
\* SAVE at offset 0), and a SAVE or SAVE_LAYER header is found there, also
\* after a region-expanding clip.
C29_ChainEndsAtScopeSave ==
    (status = "ok" /\ phase = "recording" /\ fRestoreOffsetStack # << >>) =>
        /\ ChainEnd.st = "ok"
        /\ ChainEnd.offset <= 0
        /\ OpenScopes # << >>
        /\ -ChainEnd.offset = Top(OpenScopes).offset
        /\ peek_op_and_size(fWriter, -ChainEnd.offset).st = "ok"
        /\ peek_op_and_size(fWriter, -ChainEnd.offset).op \in {SAVE, SAVE_LAYER}

-----------------------------------------------------------------------------
\* The stack and the stream

\* the frames of the stack whose scope's header has been turned into a NOOP
NoopedScopes ==
    { i \in 1..Len(fRestoreOffsetStack) :
        /\ i <= Len(OpenScopes)
        /\ InWriter(fWriter, OpenScopes[i].offset)
        /\ peek_op_and_size(fWriter, OpenScopes[i].offset).st = "ok"
        /\ peek_op_and_size(fWriter, OpenScopes[i].offset).op = NOOP }

\* C30: at all times the number of SAVE and SAVE_LAYER headers of the
\* stream not yet followed by their RESTORE is the depth of the
\* restore-offset stack less the number of its frames whose header was
\* turned into a NOOP.
C30_StackAgreesWithStream ==
    status = "ok" =>
        /\ Stream(fWriter).ok
        /\ Unmatched(Stream(fWriter).cmds, 1, 0) =
              Len(fRestoreOffsetStack) - Cardinality(NoopedScopes)

-----------------------------------------------------------------------------
\* The one outcome of a restore()

\* what a restore() did to the stream, read off the two streams
RewoundStream == bytesWritten(fWriter') < bytesWritten(fWriter)

RewrittenInPlace ==
    /\ bytesWritten(fWriter') = bytesWritten(fWriter)
    /\ \E i \in 1..Len(Stream(fWriter).cmds) :
          /\ Stream(fWriter).cmds[i].op = SAVE_LAYER
          /\ peek_op_and_size(fWriter', Stream(fWriter).cmds[i].offset).op = NOOP

AppendedRestore ==
    /\ bytesWritten(fWriter') = bytesWritten(fWriter) + kUInt32Size
    /\ peek_op_and_size(fWriter', bytesWritten(fWriter)).op = RESTORE
    /\ peek_op_and_size(fWriter', bytesWritten(fWriter)).size = kUInt32Size

\* how many RESTORE headers a stream holds
RestoreCount(w) ==
    Cardinality({ i \in 1..Len(Stream(w).cmds) : Stream(w).cmds[i].op = RESTORE })

\* C31: a restore() on a non-empty stack has exactly one outcome. Either
\* one rule fired, the first of Rule A, Rule B pattern 1 and Rule B pattern
\* 2 that matched, the stream shows the work of that rule alone and holds
\* no RESTORE more than before; or no rule fired and exactly one RESTORE
\* header was appended.
C31_OneOutcomePerRestore ==
    [][(RestoreStep /\ Stream(fWriter).ok) =>
          /\ lastOpt' \in {"collapse_save_clip_restore", "remove_save_layer1",
                           "remove_save_layer2", "recordRestore"}
          /\ (lastOpt' = "collapse_save_clip_restore") <=> RewoundStream
          /\ (lastOpt' \in {"remove_save_layer1", "remove_save_layer2"}) <=> RewrittenInPlace
          /\ (lastOpt' = "recordRestore") <=> AppendedRestore
          /\ (lastOpt' # "recordRestore") => RestoreCount(fWriter') <= RestoreCount(fWriter)
          /\ (lastOpt' = "recordRestore") => RestoreCount(fWriter') = RestoreCount(fWriter) + 1]_vars

\* a restore() in which Rule B fired and wrote no RESTORE was followed by a
\* restore() in which no rule fired and one RESTORE was written
C31_Witness ==
    /\ status = "ok"
    /\ LastCalls(<< "saveLayer", "drawBitmap", "restore", "restore" >>)
    /\ lastOpt = "recordRestore"
    /\ OpsOf(Stream(fWriter).cmds) = << SAVE, NOOP, DRAW_BITMAP, RESTORE >>

-----------------------------------------------------------------------------
\* Clips with and without a placeholder

\* a step that is a clip call, whatever the stack
AnyClipStep ==
    /\ status = "ok" /\ status' = "ok"
    /\ Len(hist') = Len(hist) + 1
    /\ Last(hist').call \in {"clipRect", "clipPath"}

\* the size of a clip command up to and with its params word
ClipBaseSize(call) ==
    IF call = "clipRect" THEN 2 * kUInt32Size + SizeofSkRect ELSE 3 * kUInt32Size

\* the size the header written at the old tail declares
DeclaredSize == peek_op_and_size(fWriter', bytesWritten(fWriter)).size

\* C32: a clip command carries a placeholder word if and only if the stack
\* is non-empty when it is recorded. With an empty stack the command is one
\* word shorter and ends with its params word, the stack stays empty and
\* the helper returns -1; with a scope open the helper returns the offset
\* of the placeholder. Either way the size the header declares is the
\* number of bytes written.
C32_PlaceholderIffScopeOpen ==
    [][AnyClipStep =>
          /\ DeclaredSize = bytesWritten(fWriter') - bytesWritten(fWriter)
          /\ IF fRestoreOffsetStack = << >>
             THEN /\ DeclaredSize = ClipBaseSize(Last(hist').call)
                  /\ Last(fWriter') = RegionOpOrdinal[Last(hist').op]
                  /\ fRestoreOffsetStack' = << >>
                  /\ Last(hist').ret = -1
             ELSE /\ DeclaredSize = ClipBaseSize(Last(hist').call) + kUInt32Size
                  /\ Last(hist').ret = bytesWritten(fWriter') - kUInt32Size
                  /\ Len(fRestoreOffsetStack') = Len(fRestoreOffsetStack)]_vars

\* a clip was recorded after a restore() had emptied the stack: the stream
\* holds the CLIP_RECT alone, six words long, and the stack is empty
C32_Witness ==
    /\ status = "ok"
    /\ LastCalls(<< "beginRecording", "restore", "clipRect" >>)
    /\ Nth(1).op = "Intersect" /\ Nth(1).ret = -1
    /\ fRestoreOffsetStack = << >>
    /\ Stream(fWriter).ok
    /\ OpsOf(Stream(fWriter).cmds) = << CLIP_RECT >>
    /\ bytesWritten(fWriter) = 2 * kUInt32Size + SizeofSkRect

-----------------------------------------------------------------------------
\* The size every command declares

\* the opcodes the other calls can append to the stream
OtherEmits(call) ==
    CASE call = "scale"                -> {SCALE}
      [] call = "skew"                 -> {SKEW}
      [] call = "drawPaint"            -> {DRAW_PAINT}
      [] call = "drawOval"             -> {DRAW_OVAL}
      [] call = "drawBitmapNine"       -> {DRAW_BITMAP_NINE}
      [] call = "drawSprite"           -> {DRAW_SPRITE}
      [] call = "drawBitmapRectToRect" -> {DRAW_BITMAP_RECT_TO_RECT}
      [] call = "drawText"             -> {DRAW_TEXT, DRAW_TEXT_TOP_BOTTOM}
      [] call = "drawPosText"          -> {DRAW_POS_TEXT, DRAW_POS_TEXT_TOP_BOTTOM,
                                           DRAW_POS_TEXT_H, DRAW_POS_TEXT_H_TOP_BOTTOM}
      [] call = "drawPosTextH"         -> {DRAW_POS_TEXT_H, DRAW_POS_TEXT_H_TOP_BOTTOM}
      [] call = "drawPoints"           -> {DRAW_POINTS}
      [] call = "drawVertices"         -> {DRAW_VERTICES}
      [] call = "drawData"             -> {DRAW_DATA}
      [] call = "beginCommentGroup"    -> {BEGIN_COMMENT_GROUP}
      [] call = "addComment"           -> {COMMENT}
      [] call = "endCommentGroup"      -> {END_COMMENT_GROUP}
      [] OTHER                         -> {}

\* the calls that may return without a command of their own
MayEmitNothing == {"restore", "endRecording", "drawPosText", "drawPosTextH"}

\* a step that is a call of the recorder, and returns
CallStep ==
    /\ status = "ok" /\ status' = "ok"
    /\ Len(hist') = Len(hist) + 1

-----------------------------------------------------------------------------
\* The hooks of the state tree and of the hierarchy

\* how often a step called saveCollapsed() of the state tree
SaveCollapsedCalls == hookCalls'.saveCollapsed - hookCalls.saveCollapsed

\* C34: the state tree, when there is one, is notified with saveCollapsed
\* exactly once in a restore() in which Rule B fires, and not at all in a
\* restore() in which Rule A fires or no rule fires; with no state tree
\* attached nothing is notified.
C34_SaveCollapsedOncePerRuleB ==
    [][RestoreStep =>
          /\ (fStateTree /\ lastOpt' \in RuleBProcs) => SaveCollapsedCalls = 1
          /\ (fStateTree /\ RewrittenInPlace) => SaveCollapsedCalls = 1
          /\ (lastOpt' \notin RuleBProcs) => SaveCollapsedCalls = 0
          /\ (~fStateTree) => SaveCollapsedCalls = 0]_vars

\* with a state tree attached, Rule B fired in a restore() and the tree
\* has been notified once
C34_Witness ==
    /\ status = "ok"
    /\ fStateTree
    /\ LastCalls(<< "beginRecording", "saveLayer", "drawBitmap", "restore" >>)
    /\ lastOpt = "remove_save_layer1"
    /\ hookCalls.saveCollapsed = 1

\* C39: restore() never calls rewindInserts() of the hierarchy. Rule A, the
\* one optimization that asks for it, never fires while a hierarchy is
\* attached, and when it fires there is no hierarchy to call.
C39_RewindInsertsNeverCalled ==
    /\ hookCalls.rewindInserts = 0
    /\ fBoundingHierarchy => lastOpt # "collapse_save_clip_restore"

\* Rule A fired in a restore() of a recorder without a hierarchy
C39_Witness ==
    /\ status = "ok"
    /\ ~fBoundingHierarchy
    /\ LastCalls(<< "beginRecording", "save", "translate", "restore" >>)
    /\ lastOpt = "collapse_save_clip_restore"
    /\ hookCalls.rewindInserts = 0

-----------------------------------------------------------------------------
\* The depth of the restore-offset stack

\* all frames but the top one
Below(stack) == SubSeq(stack, 1, Len(stack) - 1)

\* C35: save and saveLayer push one frame, minus the offset of the header
\* they then write; restore on a non-empty stack pops one frame, whether or
\* not an optimization fired; a clip leaves the depth and every frame but
\* the top one as they are; every other call between beginRecording and
\* endRecording leaves the depth as it is.
C35_StackDepthAccounting ==
    [][CallStep =>
          \E call \in {Last(hist').call} :
             /\ call \in {"save", "saveLayer"} =>
                   /\ fRestoreOffsetStack' = Append(fRestoreOffsetStack, -bytesWritten(fWriter))
                   /\ peek_op_and_size(fWriter', bytesWritten(fWriter)).op
                         = (IF call = "save" THEN SAVE ELSE SAVE_LAYER)
             /\ (call = "restore" /\ fRestoreOffsetStack # << >>) =>
                   fRestoreOffsetStack' = Below(fRestoreOffsetStack)
             /\ call \in {"clipRect", "clipPath"} =>
                   /\ Len(fRestoreOffsetStack') = Len(fRestoreOffsetStack)
                   /\ Below(fRestoreOffsetStack') = Below(fRestoreOffsetStack)
             /\ call \notin {"save", "saveLayer", "restore", "beginRecording", "endRecording"} =>
                   Len(fRestoreOffsetStack') = Len(fRestoreOffsetStack)]_vars

\* a save pushed a frame on the initial one and a clip moved its top
C35_Witness ==
    /\ status = "ok"
    /\ LastCalls(<< "beginRecording", "save", "clipRect" >>)
    /\ Len(fRestoreOffsetStack) = 2
    /\ fRestoreOffsetStack[1] = 0
    /\ fRestoreOffsetStack[2] > Nth(2).len

-----------------------------------------------------------------------------
\* The scope of the writes to the placeholder words

\* the offsets of the words written before a step that the step changed
ChangedWords ==
    { (k - 1) * kUInt32Size : k \in { i \in 1..Len(fWriter) :
                                        i <= Len(fWriter') /\ fWriter'[i] # fWriter[i] } }

\* the offsets of the placeholder words of the clips recorded in the
\* innermost open scope itself
ScopeSlots(w) ==
    { c.offset + c.size - kUInt32Size :
        c \in { Stream(w).cmds[j] : j \in ScopeClips(Stream(w).cmds) } }

\* C36: the words a clip call changes in what was written before it, and
\* the words a restore() that records a RESTORE changes, are placeholder
\* words of clips recorded in the innermost open scope itself: no
\* placeholder of an enclosing scope or of a closed nested scope, and no
\* other word, is written.
C36_WritesStayInInnermostScope ==
    [][(ClipStep \/ (RestoreStep /\ lastOpt' = "recordRestore")) =>
          \E slots \in {ScopeSlots(fWriter)} : ChangedWords \subseteq slots]_vars

-----------------------------------------------------------------------------
\* Drawing to a layer

\* the depths of the frames of stack that the calls of h opened by saveLayer
LayerFrames(h, stack) ==
    { i \in 1..Len(stack) : i <= Len(Scopes(h, Len(h))) /\ Scopes(h, Len(h))[i].call = "saveLayer" }

\* C37: isDrawingToLayer() is true if and only if a scope that is open on
\* the restore-offset stack was opened by saveLayer; it turns false in
\* the step that pops the outermost of these scopes, and in no other.
C37_DrawingToLayerIffLayerOpen ==
    [][(status = "ok" /\ status' = "ok") =>
          \E old \in {LayerFrames(hist, fRestoreOffsetStack)},
             new \in {LayerFrames(hist', fRestoreOffsetStack')} :
             /\ (fFirstSavedLayerIndex # kNoSavedLayerIndex) <=> (old # {})
             /\ (fFirstSavedLayerIndex' # kNoSavedLayerIndex) <=> (new # {})
             /\ (fFirstSavedLayerIndex # kNoSavedLayerIndex
                 /\ fFirstSavedLayerIndex' = kNoSavedLayerIndex)
                <=> (/\ old # {}
                     /\ Last(hist').call \in {"restore", "endRecording"}
                     /\ \A i \in old : Len(fRestoreOffsetStack') < i)]_vars

\* of two layers, one in the other, the inner one has been restored and
\* the outer one is still drawn to
C37_Witness ==
    /\ status = "ok"
    /\ LastCalls(<< "beginRecording", "saveLayer", "saveLayer", "restore" >>)
    /\ Len(fRestoreOffsetStack) = 2
    /\ isDrawingToLayer(Cur)

-----------------------------------------------------------------------------
\* The RESTORE headers stay

\* the commands of cmds that are RESTORE headers
Restores(cmds) == { c \in { cmds[i] : i \in 1..Len(cmds) } : c.op = RESTORE }

\* the clips of cmds whose placeholder word in w holds the offset of r
PatchedTo(w, cmds, r) ==
    { c \in { cmds[i] : i \in 1..Len(cmds) } :
        /\ c.op \in ClipOps /\ HasPlaceholder(c)
        /\ c.offset < r.offset
        /\ PlaceholderOf(w, c) = r.offset }

\* C38: a RESTORE header that is in the stream stays: no call rewinds the
\* writer past it or changes its header word, and the placeholder words
\* that hold its offset keep holding it.
C38_RestoreIsPermanent ==
    [][CallStep =>
          \E old \in {Stream(fWriter)} :
             old.ok =>
                \A r \in Restores(old.cmds) :
                   /\ InWriter(fWriter', r.offset)
                   /\ read32At(fWriter', r.offset) = read32At(fWriter, r.offset)
                   /\ \A c \in PatchedTo(fWriter, old.cmds, r) :
                         /\ InWriter(fWriter', c.offset + c.size - kUInt32Size)
                         /\ PlaceholderOf(fWriter', c) = r.offset]_vars

-----------------------------------------------------------------------------
\* The nesting of the stream

\* no restore() was called with no scope open
NoUnderflow ==
    \A n \in 1..Len(hist) : hist[n].call = "restore" => Scopes(hist, n - 1) # << >>

\* how many of the first k commands have their opcode in ops
CountOps(cmds, k, ops) == Cardinality({ i \in 1..k : cmds[i].op \in ops })

\* C40: after beginRecording, when restore() was never called with no scope
\* open, the stream is well-nested: it walks by sizes, and no prefix of it
\* holds more RESTORE headers than SAVE and SAVE_LAYER headers, so every
\* RESTORE closes a SAVE or SAVE_LAYER that is in the stream before it.
C40_StreamWellNested ==
    (status = "ok" /\ phase \in {"recording", "ended"} /\ NoUnderflow) =>
        \E s \in {Stream(fWriter)} :
           /\ s.ok
           /\ \A k \in 1..Len(s.cmds) :
                 CountOps(s.cmds, k, {RESTORE}) <= CountOps(s.cmds, k, {SAVE, SAVE_LAYER})

=============================================================================
